---- MODULE Spec2Model ----
(***************************************************************************)
(* Model of the gpui Impeller backend: the sprite atlas                    *)
(* (platform/impeller/impeller_atlas.rs) and the renderer's draw pipeline  *)
(* (platform/impeller/impeller_renderer.rs).                               *)
(*                                                                         *)
(* Option<T> values are encoded as sequences: None is << >> and Some(x)    *)
(* is <<x>>.                                                               *)
(***************************************************************************)
EXTENDS Integers, Sequences, FiniteSets, TLC

None == << >>
Some(x) == << x >>
IsSome(o) == o # << >>
Unwrap(o) == o[1]

(***************************************************************************)
(* Bounds of the model.                                                    *)
(***************************************************************************)
\* Calls that reach the id allocation are only started while both counters
\* are below MaxId (the u32 counters themselves are unbounded in practice).
MaxId == 3
\* The per-key count of pixel-producing builds saturates at BuildCap.
BuildCap == 3

Threads == {"t1", "t2", "t3"}

(***************************************************************************)
(* u32 arithmetic.  `width * height` and `width * height * 4` are u32      *)
(* products (impeller_atlas.rs:92,104,127).  A u32 is kept as two 16-bit   *)
(* limbs so that the 32-bit width is exact.                                *)
(***************************************************************************)
Limb == 256 * 256

\* x * y for 16-bit x, y as [hi, lo] limbs (8-bit split of y).
Mul16(x, y) ==
    LET y1 == y \div 256
        y0 == y % 256
        X  == x * y1
        Y  == x * y0
        s  == (X % 256) * 256 + Y
    IN  [hi |-> (X \div 256) + (s \div Limb), lo |-> s % Limb]

\* a * b for a, b < 2^31: the wrapped u32 product as limbs and whether the
\* exact product does not fit in a u32.
MulU32(a, b) ==
    LET ah  == a \div Limb
        al  == a % Limb
        bh  == b \div Limb
        bl  == b % Limb
        p0  == Mul16(al, bl)
        p1  == Mul16(al, bh)
        p2  == Mul16(bl, ah)
        mid == p1.lo + p2.lo + p0.hi
    IN  [hi |-> mid % Limb,
         lo |-> p0.lo,
         overflow |-> (ah * bh > 0) \/ (p1.hi + p2.hi > 0) \/ (mid >= Limb)]

\* u * 4 in u32 arithmetic.
MulU32By4(u) ==
    LET lo4 == u.lo * 4
        hi4 == u.hi * 4 + (lo4 \div Limb)
    IN  [hi |-> hi4 % Limb,
         lo |-> lo4 % Limb,
         overflow |-> u.overflow \/ (hi4 >= Limb)]

\* (u32 as usize) == len, for a byte count len < 2^31.
U32Equals(u, len) == u.hi < (Limb \div 2) /\ u.hi * Limb + u.lo = len

\* The u32 value as a number (only for values below 2^31).
U32Value(u) == u.hi * Limb + u.lo

(***************************************************************************)
(* Atlas keys, sizes and builder results.                                  *)
(***************************************************************************)
Monochrome == "Monochrome"
Polychrome == "Polychrome"

\* AtlasKey: an opaque identity that determines its texture kind.
Keys == { [name |-> "glyph", kind |-> Monochrome],
          [name |-> "image", kind |-> Polychrome] }

texture_kind(key) == key.kind

\* Size<DevicePixels> values a builder may report; the last one makes
\* width * height exceed the u32 range.
Sizes == { [width |-> 2, height |-> 1],
           [width |-> 65536, height |-> 65536] }

\* Byte counts a builder may return: for 2x1, w*h - 1, w*h, w*h*4 - 1, w*h*4;
\* and an empty buffer.
ByteLens == {0, 1, 2, 7, 8}

\* Result of one invocation of the `build` callback.
BuildResults ==
    { [tag |-> "Err",  size |-> None, len |-> 0],
      [tag |-> "None", size |-> None, len |-> 0] } \cup
    { [tag |-> "Some", size |-> Some(s), len |-> n] : s \in Sizes, n \in ByteLens }

(***************************************************************************)
(* State.                                                                  *)
(***************************************************************************)
VARIABLES
    \* ImpellerAtlasState
    tiles_by_key,       \* AtlasKey -> Option<AtlasTile>
    textures,           \* AtlasTextureId -> ImpellerTexture (a finite map)
    next_texture_id,
    next_tile_id,
    \* ImpellerAtlas
    context,            \* Option<SyncContext>
    state_lock,         \* holder of the `state` mutex, None when free
    \* build profile: TRUE when arithmetic overflow panics (overflow-checks)
    overflow_checks,
    \* callers
    pc,                 \* per thread: position inside the running atlas call
    frame,              \* per thread: the locals of the running call
    \* observations
    hist,               \* per key: removed since its last lookup / last tile returned
    pixel_builds,       \* per key: builds that produced pixels since the last remove
    last_created,       \* the ids of the AtlasTile constructed last, and how many were
    \* ImpellerRenderer
    framebuffer,        \* Option<impellers::Surface>: the wrapped FBO 0 and its size
    transparent,
    drawable_size,
    preserved_texture,      \* Option<impellers::Texture>
    preserved_gl_texture,   \* Option<glow::NativeTexture>
    scissor_test,       \* GL_SCISSOR_TEST of the renderer's GL context
    last_draw,          \* what the running draw call built and did
    \* the thread and the GL context of the ImpellerRenderer
    current_context,    \* whose GL context is current on the thread
    live_gl_textures,   \* native textures alive in the renderer's GL context
    foreign_calls,      \* GL calls issued while the renderer's context was not current
    destroy_calls,      \* how often destroy() was called
    last_destroy,       \* the objects the most recent destroy() released, in order
    \* GlRenderer
    gl_renderer,        \* egl_surface, egl_context, egl_display and the calls of destroy
    \* GlAtlas
    gl_atlas,           \* the running call of the GlAtlas and the tiles it returned
    \* create_renderer
    creation,           \* the window handed to create_renderer and the outcome
    \* sprite_atlas
    atlas_handle,       \* the Arc<dyn PlatformAtlas> handed out: the atlas it points to
    \* single computations of draw and of the upload
    quad_border,        \* a quad and the inner radii of its border
    upload,             \* the pixels of a tile and the payload made of them
    scissor_call,       \* a changed region and the arguments of glow scissor
    \* the callers of the atlas and its second mutex
    context_lock,       \* holder of the `context` mutex, None when free
    intent              \* per thread: the atlas call it has made and not yet left

atlas_vars == << tiles_by_key, textures, next_texture_id, next_tile_id >>
caller_vars == << pc, frame >>
obs_vars == << hist, pixel_builds, last_created >>
renderer_vars == << framebuffer, transparent, drawable_size, preserved_texture,
                    preserved_gl_texture, scissor_test, last_draw,
                    current_context, live_gl_textures, foreign_calls,
                    destroy_calls, last_destroy >>
backend_vars == << gl_renderer, creation, gl_atlas >>
pure_vars == << quad_border, upload, scissor_call >>
lock_vars == << context_lock, intent >>
vars == << atlas_vars, context, state_lock, overflow_checks, caller_vars,
           obs_vars, renderer_vars, backend_vars, atlas_handle, pure_vars, lock_vars >>

NoResult == [tag |-> "", tile |-> None]

\* No thread is inside or in front of an atlas call of its own account, and
\* the `context` mutex is free.
NoLockCalls ==
    /\ context_lock = None
    /\ intent = [t \in Threads |-> None]

EmptyFrame ==
    [op |-> "", key |-> None, size |-> None, len |-> 0, texture_id |-> None,
     tile_id |-> None, gpu_texture |-> None, built |-> FALSE,
     result |-> NoResult]

\* ImpellerAtlas::new, but for the context
AtlasInit ==
    /\ tiles_by_key = [k \in Keys |-> None]
    /\ textures = << >>
    /\ next_texture_id = 0
    /\ next_tile_id = 0
    /\ state_lock = None
    /\ pc = [t \in Threads |-> "idle"]
    /\ frame = [t \in Threads |-> EmptyFrame]
    /\ hist = [k \in Keys |-> [removed |-> FALSE, tile |-> None]]
    /\ pixel_builds = [k \in Keys |-> 0]
    /\ last_created = [texture_index |-> -1, tile_id |-> -1, count |-> 0]

(***************************************************************************)
(* Finite-map helpers (FxHashMap get / insert / remove).                   *)
(***************************************************************************)
\* Variant: the insert is lost.
MapInsert_Drop(m, k, v) == m

MapInsert(m, k, v) == [x \in (DOMAIN m) \cup {k} |-> IF x = k THEN v ELSE m[x]]
\* Variant: the removal empties the map.
MapRemove_Clear(m, k) == << >>

MapRemove(m, k) == [x \in (DOMAIN m) \ {k} |-> m[x]]

\* Variant: the lookup goes to an atlas nothing was built into.
get_texture_Detached(texture_id) == None

\* ImpellerAtlas::get_texture
get_texture(texture_id) ==
    IF texture_id \in DOMAIN textures THEN textures[texture_id].texture ELSE None

\* ImpellerAtlas::set_context
SetContext ==
    /\ context' = Some("impeller_context")
    /\ UNCHANGED << atlas_vars, state_lock, overflow_checks, caller_vars,
                    obs_vars, renderer_vars, backend_vars, atlas_handle, pure_vars, lock_vars >>

(***************************************************************************)
(* The `state` mutex.                                                      *)
(***************************************************************************)
\* Variant: the `state` mutex excludes nobody.
StateLockFree_Always == TRUE

\* self.state.lock() can be passed only while no other guard is alive.
StateLockFree == state_lock = None

\* The call of thread t has its result: only the return is left.
Finish(t, tag, tile) ==
    /\ pc' = [pc EXCEPT ![t] = "return"]
    /\ frame' = [frame EXCEPT ![t].result = [tag |-> tag, tile |-> tile]]

(***************************************************************************)
(* The texture upload of get_or_insert_with (impeller_atlas.rs:86-165).    *)
(***************************************************************************)
\* An impellers::Texture: its dimensions and the length of the RGBA payload
\* it was created from.
GpuTexture(size, data_len) ==
    [width |-> size.width, height |-> size.height, data_len |-> data_len]

\* The value of `gpu_texture`, or a panic.  `ctx` is the content of the
\* context mutex, `checked` the build profile, `gpu_ok` whether
\* create_texture_with_rgba8 succeeds.
Upload(kind, size, len, ctx, checked, gpu_ok) ==
    LET wh  == MulU32(size.width, size.height)      \* width * height
        wh4 == MulU32By4(wh)                        \* width * height * 4
        made(data_len) ==
            [panic |-> FALSE,
             texture |-> IF gpu_ok THEN Some(GpuTexture(size, data_len)) ELSE None]
        skip  == [panic |-> FALSE, texture |-> None]
        panic == [panic |-> TRUE, texture |-> None]
    IN  IF ~IsSome(ctx) THEN skip
        ELSE IF kind = Monochrome
        THEN IF checked /\ wh.overflow THEN panic
             ELSE IF ~U32Equals(wh, len) THEN skip
             ELSE IF checked /\ wh4.overflow THEN panic
             ELSE made(4 * len)
        ELSE IF checked /\ wh4.overflow THEN panic
             ELSE IF ~U32Equals(wh4, len) THEN skip
             ELSE made(4 * (len \div 4))

(***************************************************************************)
(* ImpellerAtlas::get_or_insert_with, statement by statement.  The `state` *)
(* guard taken at line 65 is held until the call returns.                  *)
(***************************************************************************)
\* Variant: the lookup never finds the key.
Lookup_AlwaysMiss(key) == None

\* Variant: a tile whose texture was not created counts as a miss.
Lookup_RetryTextureless(key) ==
    IF /\ IsSome(tiles_by_key[key])
       /\ get_texture(Unwrap(tiles_by_key[key]).texture_id) = None
    THEN None
    ELSE tiles_by_key[key]

\* line 67: state.tiles_by_key.get(key).
Lookup(key) == tiles_by_key[key]

\* lines 65-69: lock, look the key up; a hit has the tile as its result.
GiLock(t, key) ==
    /\ pc[t] = "idle"
    /\ StateLockFree
    /\ state_lock' = Some(t)
    /\ IF IsSome(Lookup(key))
       THEN /\ pc' = [pc EXCEPT ![t] = "return"]
            /\ frame' = [frame EXCEPT ![t] =
                            [EmptyFrame EXCEPT !.op = "get_or_insert_with",
                                               !.key = Some(key),
                                               !.result = [tag |-> "Some",
                                                           tile |-> Lookup(key)]]]
       ELSE /\ next_texture_id < MaxId
            /\ next_tile_id < MaxId
            /\ pc' = [pc EXCEPT ![t] = "build"]
            /\ frame' = [frame EXCEPT ![t] =
                            [EmptyFrame EXCEPT !.op = "get_or_insert_with",
                                               !.key = Some(key)]]
    /\ UNCHANGED << atlas_vars, context, overflow_checks, obs_vars, renderer_vars, backend_vars, atlas_handle, pure_vars, lock_vars >>

\* Variant: a tile id is consumed although the builder produced nothing.
GiBuildNothing_Allocates(t, r) ==
    /\ pc' = [pc EXCEPT ![t] = "return"]
    /\ frame' = [frame EXCEPT ![t].built = TRUE,
                              ![t].result = [tag |-> r.tag, tile |-> None]]
    /\ next_tile_id' = next_tile_id + 1
    /\ UNCHANGED << tiles_by_key, textures, next_texture_id, pixel_builds >>

\* line 71, `build()?` is Err(e) and lines 71-73, Ok(None): the call returns
\* the error, or Ok(None), at once.
GiBuildNothing(t, r) ==
    /\ pc' = [pc EXCEPT ![t] = "return"]
    /\ frame' = [frame EXCEPT ![t].built = TRUE,
                              ![t].result = [tag |-> r.tag, tile |-> None]]
    /\ UNCHANGED << atlas_vars, pixel_builds >>

\* line 71, Ok(Some((size, bytes))): the call goes on with the pixels.
GiBuildPixels(t, r) ==
    /\ pc' = [pc EXCEPT ![t] = "texture_id"]
    /\ frame' = [frame EXCEPT ![t].size = r.size, ![t].len = r.len,
                              ![t].built = TRUE]
    /\ pixel_builds' = [pixel_builds EXCEPT ![Unwrap(frame[t].key)] =
                           IF @ < BuildCap THEN @ + 1 ELSE @]
    /\ UNCHANGED atlas_vars

\* lines 71-73: run the builder.
GiBuild(t, r) ==
    /\ pc[t] = "build"
    /\ IF r.tag = "Some" THEN GiBuildPixels(t, r) ELSE GiBuildNothing(t, r)
    /\ UNCHANGED << context, state_lock, overflow_checks, hist, last_created,
                    renderer_vars, backend_vars, atlas_handle, pure_vars, lock_vars >>

\* lines 75-80: texture_id = { index: state.next_texture_id, kind }.
GiTextureId(t) ==
    /\ pc[t] = "texture_id"
    /\ pc' = [pc EXCEPT ![t] = "inc_texture_id"]
    /\ frame' = [frame EXCEPT ![t].texture_id =
                    Some([index |-> next_texture_id,
                          kind |-> texture_kind(Unwrap(frame[t].key))])]
    /\ UNCHANGED << atlas_vars, context, state_lock, overflow_checks, obs_vars,
                    renderer_vars, backend_vars, atlas_handle, pure_vars, lock_vars >>

\* line 81: state.next_texture_id += 1.
GiIncTextureId(t) ==
    /\ pc[t] = "inc_texture_id"
    /\ pc' = [pc EXCEPT ![t] = "tile_id"]
    /\ next_texture_id' = next_texture_id + 1
    /\ UNCHANGED << tiles_by_key, textures, next_tile_id, context, state_lock,
                    overflow_checks, frame, obs_vars, renderer_vars, backend_vars, atlas_handle, pure_vars, lock_vars >>

\* line 83: tile_id = TileId(state.next_tile_id).
GiTileId(t) ==
    /\ pc[t] = "tile_id"
    /\ pc' = [pc EXCEPT ![t] = "inc_tile_id"]
    /\ frame' = [frame EXCEPT ![t].tile_id = Some(next_tile_id)]
    /\ UNCHANGED << atlas_vars, context, state_lock, overflow_checks, obs_vars,
                    renderer_vars, backend_vars, atlas_handle, pure_vars, lock_vars >>

\* Variant: the tile counter is not advanced.
GiIncTileId_Skip(t) ==
    /\ pc[t] = "inc_tile_id"
    /\ pc' = [pc EXCEPT ![t] = "upload"]
    /\ UNCHANGED << atlas_vars, context, state_lock, overflow_checks, frame,
                    obs_vars, renderer_vars, backend_vars, atlas_handle, pure_vars, lock_vars >>

\* line 84: state.next_tile_id += 1.
GiIncTileId(t) ==
    /\ pc[t] = "inc_tile_id"
    /\ pc' = [pc EXCEPT ![t] = "upload"]
    /\ next_tile_id' = next_tile_id + 1
    /\ UNCHANGED << tiles_by_key, textures, next_texture_id, context, state_lock,
                    overflow_checks, frame, obs_vars, renderer_vars, backend_vars, atlas_handle, pure_vars, lock_vars >>

\* lines 86-165: build the GPU texture under the context mutex.  A panic
\* unwinds the call: nothing more of it runs.
GiUpload(t, gpu_ok) ==
    /\ pc[t] = "upload"
    /\ LET key == Unwrap(frame[t].key)
           up  == Upload(texture_kind(key), Unwrap(frame[t].size), frame[t].len,
                         context, overflow_checks, gpu_ok)
       IN  IF up.panic
           THEN Finish(t, "Panic", None)
           ELSE /\ pc' = [pc EXCEPT ![t] = "insert_texture"]
                /\ frame' = [frame EXCEPT ![t].gpu_texture = up.texture]
    /\ UNCHANGED << atlas_vars, context, state_lock, overflow_checks, obs_vars,
                    renderer_vars, backend_vars, atlas_handle, pure_vars, lock_vars >>

\* lines 167-174: state.textures.insert(texture_id, ImpellerTexture { .. }).
GiInsertTexture(t) ==
    /\ pc[t] = "insert_texture"
    /\ pc' = [pc EXCEPT ![t] = "insert_tile"]
    /\ textures' = MapInsert(textures, Unwrap(frame[t].texture_id),
                             [texture |-> frame[t].gpu_texture,
                              size |-> Unwrap(frame[t].size),
                              kind |-> texture_kind(Unwrap(frame[t].key))])
    /\ UNCHANGED << tiles_by_key, next_texture_id, next_tile_id, context,
                    state_lock, overflow_checks, frame, obs_vars, renderer_vars, backend_vars, atlas_handle, pure_vars, lock_vars >>

\* lines 176-190: build the AtlasTile and map the key to it; it is the result.
GiInsertTile(t) ==
    /\ pc[t] = "insert_tile"
    /\ LET key  == Unwrap(frame[t].key)
           tile == [texture_id |-> Unwrap(frame[t].texture_id),
                    tile_id |-> Unwrap(frame[t].tile_id),
                    padding |-> 0,
                    size |-> Unwrap(frame[t].size)]
       IN  /\ tiles_by_key' = [tiles_by_key EXCEPT ![key] = Some(tile)]
           /\ Finish(t, "Some", Some(tile))
           /\ last_created' = [texture_index |-> tile.texture_id.index,
                               tile_id |-> tile.tile_id,
                               count |-> last_created.count + 1]
    /\ UNCHANGED << textures, next_texture_id, next_tile_id, context, state_lock,
                    overflow_checks, hist, pixel_builds, renderer_vars, backend_vars, atlas_handle, pure_vars, lock_vars >>

\* Variant: the texture entry of the removed tile is left behind.
RemoveTextureOf_Keep(old) == textures

\* Variant: an unknown key removes the texture of the default texture id.
RemoveTextureOf_Default(old) ==
    IF IsSome(old) THEN MapRemove(textures, Unwrap(old).texture_id)
    ELSE MapRemove(textures, [index |-> 0, kind |-> Monochrome])

\* lines 195-197: the texture map after `tiles_by_key.remove(key)` gave `old`.
RemoveTextureOf(old) ==
    IF IsSome(old) THEN MapRemove(textures, Unwrap(old).texture_id) ELSE textures

\* ImpellerAtlas::remove (lines 193-198), under the `state` guard.
Remove(t, key) ==
    /\ pc[t] = "idle"
    /\ StateLockFree
    /\ state_lock' = Some(t)
    /\ tiles_by_key' = [tiles_by_key EXCEPT ![key] = None]
    /\ textures' = RemoveTextureOf(tiles_by_key[key])
    /\ pc' = [pc EXCEPT ![t] = "return"]
    /\ frame' = [frame EXCEPT ![t] =
                    [EmptyFrame EXCEPT !.op = "remove", !.key = Some(key),
                                       !.result = [tag |-> "Unit", tile |-> None]]]
    /\ UNCHANGED << next_texture_id, next_tile_id, context, overflow_checks,
                    obs_vars, renderer_vars, backend_vars, atlas_handle, pure_vars, lock_vars >>

\* The end of either call: the guard is dropped, the caller has the result.
Return(t) ==
    /\ pc[t] = "return"
    /\ pc' = [pc EXCEPT ![t] = "idle"]
    /\ frame' = [frame EXCEPT ![t] = EmptyFrame]
    /\ state_lock' = None
    /\ LET key == Unwrap(frame[t].key) IN
       IF frame[t].op = "remove"
       THEN /\ hist' = [hist EXCEPT ![key] = [removed |-> TRUE, tile |-> None]]
            /\ pixel_builds' = [pixel_builds EXCEPT ![key] = 0]
       ELSE /\ hist' = [hist EXCEPT ![key] =
                           [removed |-> FALSE,
                            tile |-> IF frame[t].result.tag = "Some"
                                     THEN frame[t].result.tile ELSE @.tile]]
            /\ UNCHANGED pixel_builds
    /\ UNCHANGED << atlas_vars, context, overflow_checks, last_created,
                    renderer_vars, backend_vars, atlas_handle, pure_vars, lock_vars >>

(***************************************************************************)
(* Scenes: the input of ImpellerRenderer::draw.                            *)
(***************************************************************************)
Rect(x, y, w, h) == [x |-> x, y |-> y, w |-> w, h |-> h]

\* Bounds::intersects: the two rectangles overlap in a region of positive
\* area.
intersects(a, b) ==
    /\ a.x < b.x + b.w
    /\ a.x + a.w > b.x
    /\ a.y < b.y + b.h
    /\ a.y + a.h > b.y

\* The values of scene.changed_bounds.
ChangedBounds == { None, Some(Rect(2, 2, 2, 2)) }

\* Element bounds: overlapping the changed rectangle, away from it, and
\* sharing only an edge with it.
ElemBounds == { Rect(1, 1, 2, 2), Rect(0, 0, 1, 1), Rect(0, 2, 2, 2) }

BatchKinds == { "Quads", "Polygons", "Paths", "Shadows", "Underlines",
                "MonochromeSprites", "PolychromeSprites", "Surfaces" }

SpriteKind(kind) ==
    IF kind = "MonochromeSprites" THEN Some(Monochrome)
    ELSE IF kind = "PolychromeSprites" THEN Some(Polychrome)
    ELSE None

\* background.tag of a quad or polygon.  The PatternSlash arm (lines
\* 356-368, 518-528) makes the calls of the Solid arm.
BackgroundTags == { "Solid", "LinearGradient" }

\* A plain element: its vertex list is not empty, its background is solid,
\* its transformation is the identity and its corner radii are zero.
Element(bounds) ==
    [bounds |-> bounds, empty |-> FALSE, tag |-> "Solid", is_identity |-> TRUE,
     has_radii |-> FALSE]

\* An element of a batch: its bounds; for a polygon or path, whether its
\* point / vertex list is empty; for a quad or polygon, its background tag;
\* for a monochrome sprite, whether its transformation is the identity; for
\* a polychrome sprite, whether it has corner radii.
Elements(kind) ==
    { el \in [bounds : ElemBounds, empty : BOOLEAN, tag : BackgroundTags,
              is_identity : BOOLEAN, has_radii : BOOLEAN] :
          /\ el.empty => (kind \in {"Polygons", "Paths"} /\ el.tag = "Solid")
          /\ el.tag # "Solid" => kind \in {"Quads", "Polygons"}
          /\ ~el.is_identity => kind = "MonochromeSprites"
          /\ el.has_radii => kind = "PolychromeSprites" }

\* Lists of one element, and of two elements with different bounds, the
\* upper one first and the lower one with a solid background, no
\* transformation and no corner radii.
ElementLists(kind) ==
    { << e >> : e \in Elements(kind) } \cup
    { es \in { << e1, e2 >> : e1 \in Elements(kind), e2 \in Elements(kind) } :
          /\ es[1].bounds.y < es[2].bounds.y
          /\ es[2] = [Element(es[2].bounds) EXCEPT !.empty = es[2].empty] }

\* The texture ids a sprite batch may carry.
BatchTextureIds(kind) ==
    IF IsSome(SpriteKind(kind))
    THEN { Some([index |-> i, kind |-> Unwrap(SpriteKind(kind))]) : i \in {0, 1} }
    ELSE { None }

Batches ==
    UNION { { [kind |-> kind, texture_id |-> id, elems |-> es] :
                  id \in BatchTextureIds(kind), es \in ElementLists(kind) } :
            kind \in BatchKinds }

\* A batch of one element.
Batch1(kind, index, bounds) ==
    [kind |-> kind,
     texture_id |-> IF IsSome(SpriteKind(kind))
                    THEN Some([index |-> index, kind |-> Unwrap(SpriteKind(kind))])
                    ELSE None,
     elems |-> << Element(bounds) >>]

\* A batch of one monochrome sprite with a transformation.
Transformed1(index, bounds) ==
    [Batch1("MonochromeSprites", index, bounds) EXCEPT
         !.elems = << [Element(bounds) EXCEPT !.is_identity = FALSE] >>]

\* Scenes of two batches.
TwoBatchScenes ==
    { [changed_bounds |-> c, batches |-> << b1, b2 >>] :
          c \in ChangedBounds,
          b1 \in { Batch1("Quads", 0, Rect(1, 1, 2, 2)),
                   Batch1("MonochromeSprites", 0, Rect(1, 1, 2, 2)),
                   Transformed1(0, Rect(1, 1, 2, 2)) },
          b2 \in { Batch1("Shadows", 0, Rect(0, 0, 1, 1)),
                   Batch1("PolychromeSprites", 1, Rect(1, 1, 2, 2)),
                   Batch1("Quads", 0, Rect(1, 1, 2, 2)) } }

Scenes ==
    { [changed_bounds |-> c, batches |-> << b >>] : c \in ChangedBounds, b \in Batches }
    \cup TwoBatchScenes

(***************************************************************************)
(* The display list built by draw.  A command records the builder call     *)
(* and the element (batch index, element index) it was issued for; the     *)
(* commands of the background have batch = 0.                              *)
(***************************************************************************)
Cmd(op, b, e) == [op |-> op, batch |-> b, elem |-> e]

\* Variant: the commands of a later batch or element come first.
RECURSIVE Flatten_Reversed(_)
Flatten_Reversed(ss) ==
    IF ss = << >> THEN << >> ELSE Flatten_Reversed(Tail(ss)) \o Head(ss)

\* The builder calls of consecutive loop iterations, in the order made.
RECURSIVE Flatten(_)
Flatten(ss) == IF ss = << >> THEN << >> ELSE Head(ss) \o Flatten(Tail(ss))

\* lines 226-263: the preserved frame or the background paint, then the
\* clip to the changed region and its clear.
BackgroundCommands(changed, preserved) ==
    (IF IsSome(preserved)
     THEN << Cmd("save", 0, 0), Cmd("translate", 0, 0), Cmd("scale", 0, 0),
             Cmd("draw_texture_rect", 0, 0), Cmd("restore", 0, 0) >>
     ELSE << Cmd("draw_paint", 0, 0) >>)
    \o
    (IF IsSome(changed)
     THEN << Cmd("save", 0, 0), Cmd("clip_path", 0, 0), Cmd("draw_rect", 0, 0) >>
     ELSE << Cmd("draw_paint", 0, 0) >>)

\* The element is skipped by the `intersects` test of lines 269-273,
\* 670-674 and 781-785.
Culled(changed, elem) ==
    IsSome(changed) /\ ~intersects(elem.bounds, Unwrap(changed))

\* Variant: the fallback is culled like a textured sprite.
SpriteFallback_Culled(kind, changed, elem, b, e) ==
    IF Culled(changed, elem) THEN << >>
    ELSE IF kind = "MonochromeSprites" THEN << Cmd("draw_rect", b, e) >>
    ELSE << Cmd("draw_rounded_rect", b, e) >>

\* lines 749-771 and 875-904: a sprite of a batch whose texture the atlas
\* does not have is drawn as a rectangle of the sprite's bounds.
SpriteFallback(kind, changed, elem, b, e) ==
    IF kind = "MonochromeSprites" THEN << Cmd("draw_rect", b, e) >>
    ELSE << Cmd("draw_rounded_rect", b, e) >>

\* Variant: the canvas state saved for a transformed sprite is not restored.
MonochromeSpriteCommands_Unrestored(elem, b, e) ==
    (IF elem.is_identity THEN << >>
     ELSE << Cmd("save", b, e), Cmd("transform", b, e) >>)
    \o << Cmd("draw_texture_rect", b, e) >>

\* lines 707-747: a sprite of a monochrome batch whose texture the atlas
\* has; a transformation other than the identity is set between a save and
\* a restore.
MonochromeSpriteCommands(elem, b, e) ==
    (IF elem.is_identity THEN << >>
     ELSE << Cmd("save", b, e), Cmd("transform", b, e) >>)
    \o << Cmd("draw_texture_rect", b, e) >>
    \o (IF elem.is_identity THEN << >> ELSE << Cmd("restore", b, e) >>)

\* lines 851-873: a sprite of a polychrome batch whose texture the atlas
\* has, clipped to its content mask and, with corner radii, to its rounded
\* bounds.
PolychromeSpriteCommands(elem, b, e) ==
    << Cmd("save", b, e), Cmd("clip_path", b, e) >>
    \o (IF elem.has_radii THEN << Cmd("clip_path", b, e) >> ELSE << >>)
    \o << Cmd("draw_texture_rect", b, e), Cmd("restore", b, e) >>

\* lines 265-907: the commands of one element of a batch.  `texture` is the
\* result of sprite_atlas.get_texture for the batch.
ElementCommands(kind, texture, changed, elem, b, e) ==
    CASE kind = "Quads" ->
            IF Culled(changed, elem) THEN << >>
            ELSE << Cmd("draw_rounded_rect", b, e) >>
      [] kind = "Polygons" ->
            IF elem.empty THEN << >> ELSE << Cmd("draw_path", b, e) >>
      [] kind = "Paths" ->
            IF elem.empty THEN << >> ELSE << Cmd("draw_path", b, e) >>
      [] kind = "Shadows" -> << Cmd("draw_rounded_rect", b, e) >>
      [] kind = "Underlines" -> << Cmd("draw_rect", b, e) >>
      [] kind = "MonochromeSprites" ->
            IF IsSome(texture)
            THEN IF Culled(changed, elem) THEN << >>
                 ELSE MonochromeSpriteCommands(elem, b, e)
            ELSE SpriteFallback(kind, changed, elem, b, e)
      [] kind = "PolychromeSprites" ->
            IF IsSome(texture)
            THEN IF Culled(changed, elem) THEN << >>
                 ELSE PolychromeSpriteCommands(elem, b, e)
            ELSE SpriteFallback(kind, changed, elem, b, e)
      [] kind = "Surfaces" -> << >>

\* One arm of `match batch` (lines 266-907).
BatchCommands(batch, changed, b) ==
    LET texture == IF IsSome(batch.texture_id)
                   THEN get_texture(Unwrap(batch.texture_id)) ELSE None
    IN  Flatten([e \in 1..Len(batch.elems) |->
                    ElementCommands(batch.kind, texture, changed, batch.elems[e], b, e)])

\* lines 216-912: everything draw puts into the DisplayListBuilder.
DisplayList(scene, preserved) ==
    BackgroundCommands(scene.changed_bounds, preserved)
    \o Flatten([b \in 1..Len(scene.batches) |->
                   BatchCommands(scene.batches[b], scene.changed_bounds, b)])
    \o (IF IsSome(scene.changed_bounds) THEN << Cmd("restore", 0, 0) >> ELSE << >>)

(***************************************************************************)
(* The paint object of draw (line 217), shared by the background and the   *)
(* fills of quads, polygons, paths, underlines and fallback sprites.       *)
(* Shadows, polygon borders and textured sprites have paints of their own. *)
(* `color` names the element whose colour set_color stored last (<<0, 0>>  *)
(* for the background), `color_source` the element whose gradient          *)
(* set_color_source stored last.  draw calls nothing else on the paint.    *)
(***************************************************************************)
PaintDefault == [color |-> << 0, 0 >>, color_source |-> None]

PaintCall(call, b, e) == [call |-> call, batch |-> b, elem |-> e]

\* lines 296-369 and 455-529: the call on the paint made for a background
\* tag.
BackgroundCall(tag) ==
    IF tag = "LinearGradient" THEN "set_color_source" ELSE "set_color"

\* The call made on the shared paint for one element, which is followed by
\* the draw command of the element's fill with that paint.
ElementPaintCalls(kind, texture, changed, elem, b, e) ==
    CASE kind = "Quads" ->
            IF Culled(changed, elem) THEN << >>
            ELSE << PaintCall(BackgroundCall(elem.tag), b, e) >>
      [] kind = "Polygons" ->
            IF elem.empty THEN << >>
            ELSE << PaintCall(BackgroundCall(elem.tag), b, e) >>
      [] kind = "Paths" ->
            IF elem.empty THEN << >> ELSE << PaintCall("set_color", b, e) >>
      [] kind = "Underlines" -> << PaintCall("set_color", b, e) >>
      [] kind \in {"MonochromeSprites", "PolychromeSprites"} ->
            IF IsSome(texture) THEN << >> ELSE << PaintCall("set_color", b, e) >>
      [] OTHER -> << >>

BatchPaintCalls(batch, changed, b) ==
    LET texture == IF IsSome(batch.texture_id)
                   THEN get_texture(Unwrap(batch.texture_id)) ELSE None
    IN  Flatten([e \in 1..Len(batch.elems) |->
                    ElementPaintCalls(batch.kind, texture, changed, batch.elems[e], b, e)])

\* Paint::set_color / Paint::set_color_source: each stores its argument and
\* leaves the other attribute as it is.
PaintAfter(paint, c) ==
    IF c.call = "set_color_source"
    THEN [paint EXCEPT !.color_source = Some(<< c.batch, c.elem >>)]
    ELSE [paint EXCEPT !.color = << c.batch, c.elem >>]

\* The fills drawn with the shared paint, each with the paint it is drawn
\* with.
RECURSIVE EmitFills(_, _)
EmitFills(calls, paint) ==
    IF calls = << >> THEN << >>
    ELSE LET c == Head(calls)
             after == PaintAfter(paint, c)
         IN  << [batch |-> c.batch, elem |-> c.elem, call |-> c.call,
                 paint |-> after] >>
             \o EmitFills(Tail(calls), after)

\* lines 265-907: the fills of the elements of a scene, in the order drawn.
Fills(scene) ==
    EmitFills(Flatten([b \in 1..Len(scene.batches) |->
                          BatchPaintCalls(scene.batches[b], scene.changed_bounds, b)]),
              PaintDefault)

(***************************************************************************)
(* ImpellerRenderer.                                                       *)
(***************************************************************************)
DrawableSizes == { [width |-> 4, height |-> 4], [width |-> 6, height |-> 4] }

\* No single computation is followed.
NoPureCalls ==
    /\ quad_border = None
    /\ upload = None
    /\ scissor_call = None

\* ImpellerRenderer::sprite_atlas (lines 1072-1074): a clone of the Arc in
\* self.sprite_atlas, that is, a handle to the atlas made at line 160.
SpriteAtlas ==
    /\ atlas_handle' = Some("sprite_atlas")
    /\ UNCHANGED << atlas_vars, context, state_lock, overflow_checks, caller_vars,
                    obs_vars, renderer_vars, backend_vars, pure_vars, lock_vars >>

\* ImpellerRenderer::new (lines 143-184): the fields of a new renderer; its
\* GL context was made current at line 143.
RendererInit ==
    /\ drawable_size \in DrawableSizes
    /\ framebuffer = Some(drawable_size)
    /\ transparent = FALSE
    /\ preserved_texture = None
    /\ preserved_gl_texture = None
    /\ scissor_test = FALSE
    /\ last_draw = None
    /\ current_context = "impeller"
    /\ live_gl_textures = 0
    /\ foreign_calls = {}
    /\ destroy_calls = 0
    /\ last_destroy = None

\* No draw call is running.
NotDrawing == last_draw = None

\* lines 219-224: the colour of the background paint.
BackgroundPaint(flag) == IF flag THEN "transparent" ELSE "BLACKBERRY"

\* lines 927-1038: the calls that keep the rendered frame for the next
\* draw.  The framebuffer is copied into the GL texture, the texture is
\* read into the `pixels` vector through a temporary framebuffer, and the
\* vector is uploaded as the preserved texture.
PreserveCalls ==
    (IF IsSome(preserved_gl_texture) THEN << >>
     ELSE << "create_texture", "tex_image_2d" >>)
    \o << "copy_tex_sub_image_2d", "create_framebuffer", "framebuffer_texture_2d",
          "read_pixels", "delete_framebuffer", "create_texture_with_rgba8" >>

\* What a draw call built and did: the display list, the scissor state it
\* set at lines 204-213, the background paint, and whether the list was
\* submitted (line 917) and the surface swapped (line 1066), the GL calls
\* that keep the frame, and whether the frame became the preserved texture
\* (lines 1030-1035).
DrawRecord(scene, done, texture_ok) ==
    [scene |-> scene,
     display_list |-> DisplayList(scene, preserved_texture),
     fills |-> Fills(scene),
     scissor |-> IsSome(scene.changed_bounds),
     background |-> BackgroundPaint(transparent),
     submitted |-> done, presented |-> done,
     preserve_calls |-> IF done THEN PreserveCalls ELSE << >>,
     preserved |-> done /\ texture_ok]

\* ImpellerRenderer::draw (lines 190-1070), up to its return.  `texture_ok`
\* is whether create_texture_with_rgba8 succeeds at line 1030.  The calls
\* whose failure panics (expect / unwrap) succeed.
Draw(scene, texture_ok) ==
    /\ NotDrawing
    /\ current_context' = "impeller"            \* lines 196-200
    /\ UNCHANGED << foreign_calls, destroy_calls, last_destroy >>
    /\ LET changed == scene.changed_bounds
       IN  IF ~IsSome(framebuffer)
           THEN \* lines 914-916: return with the list unused
                /\ scissor_test' = (scissor_test \/ IsSome(changed))
                /\ last_draw' = Some(DrawRecord(scene, FALSE, texture_ok))
                /\ UNCHANGED << framebuffer, transparent, drawable_size,
                                preserved_texture, preserved_gl_texture,
                                live_gl_textures >>
           ELSE /\ preserved_gl_texture' =
                       IF IsSome(preserved_gl_texture) THEN preserved_gl_texture
                       ELSE Some(drawable_size)
                /\ live_gl_textures' =
                       IF IsSome(preserved_gl_texture) THEN live_gl_textures
                       ELSE live_gl_textures + 1
                /\ preserved_texture' =
                       IF texture_ok THEN Some(drawable_size) ELSE preserved_texture
                /\ scissor_test' = (scissor_test /\ ~IsSome(changed))
                /\ last_draw' = Some(DrawRecord(scene, TRUE, texture_ok))
                /\ UNCHANGED << framebuffer, transparent, drawable_size >>

\* draw returns to its caller; the scene and the builder are gone.
DrawReturn ==
    /\ ~NotDrawing
    /\ last_draw' = None
    /\ UNCHANGED << framebuffer, transparent, drawable_size, preserved_texture,
                    preserved_gl_texture, scissor_test, current_context,
                    live_gl_textures, foreign_calls, destroy_calls,
                    last_destroy >>

\* glow delete_texture (lines 1113-1118, 1133-1138): the call goes to
\* the context that is current on the thread.  The texture of the renderer
\* is deleted only when that is the renderer's own context.
DeleteTexture_Always(texture) ==
    /\ live_gl_textures' = live_gl_textures - 1
    /\ foreign_calls' = foreign_calls

DeleteTexture(texture) ==
    IF IsSome(texture)
    THEN /\ live_gl_textures' =
                IF current_context' = "impeller" THEN live_gl_textures - 1
                ELSE live_gl_textures
         /\ foreign_calls' =
                IF current_context' = "impeller" THEN foreign_calls
                ELSE foreign_calls \cup {"delete_texture"}
    ELSE UNCHANGED << live_gl_textures, foreign_calls >>

\* Variant: the preserved textures survive the resize.
UpdateDrawableSize_KeepPreserved(size, fbo_ok) ==
    /\ NotDrawing
    /\ current_context' = "impeller"
    /\ drawable_size' = size
    /\ framebuffer' = IF fbo_ok THEN Some(size) ELSE None
    /\ UNCHANGED << transparent, scissor_test, last_draw, destroy_calls,
                    last_destroy, preserved_texture, preserved_gl_texture,
                    live_gl_textures, foreign_calls >>

\* ImpellerRenderer::update_drawable_size (lines 1085-1121).  `fbo_ok` is
\* whether wrap_fbo returns a surface.
UpdateDrawableSize(size, fbo_ok) ==
    /\ NotDrawing
    /\ current_context' = "impeller"            \* lines 1087-1091
    /\ drawable_size' = size
    /\ framebuffer' = IF fbo_ok THEN Some(size) ELSE None
    /\ preserved_texture' = None
    /\ preserved_gl_texture' = None
    /\ DeleteTexture(preserved_gl_texture)
    /\ UNCHANGED << transparent, scissor_test, last_draw, destroy_calls,
                    last_destroy >>

\* ImpellerRenderer::update_transparency (lines 1122-1127).
UpdateTransparency_Reset(flag) ==
    /\ NotDrawing
    /\ transparent' = flag
    /\ preserved_texture' = None
    /\ UNCHANGED << framebuffer, drawable_size, preserved_gl_texture,
                    scissor_test, last_draw, current_context,
                    live_gl_textures, foreign_calls, destroy_calls,
                    last_destroy >>

UpdateTransparency(flag) ==
    /\ NotDrawing
    /\ transparent' = flag
    /\ UNCHANGED << framebuffer, drawable_size, preserved_texture,
                    preserved_gl_texture, scissor_test, last_draw,
                    current_context, live_gl_textures, foreign_calls,
                    destroy_calls, last_destroy >>

\* The largest number of destroy() calls followed.
MaxDestroys == 2

\* ImpellerRenderer::destroy (lines 1129-1139).  No context is made
\* current.
Destroy ==
    /\ NotDrawing
    /\ destroy_calls < MaxDestroys
    /\ destroy_calls' = destroy_calls + 1
    /\ last_destroy' =
          Some((IF IsSome(framebuffer) THEN << "framebuffer" >> ELSE << >>)
               \o (IF IsSome(preserved_texture) THEN << "preserved_texture" >>
                   ELSE << >>)
               \o (IF IsSome(preserved_gl_texture) THEN << "preserved_gl_texture" >>
                   ELSE << >>))
    /\ framebuffer' = None
    /\ preserved_texture' = None
    /\ preserved_gl_texture' = None
    /\ current_context' = current_context
    /\ DeleteTexture(preserved_gl_texture)
    /\ UNCHANGED << transparent, drawable_size, scissor_test, last_draw >>

(***************************************************************************)
(* GlAtlas (gl_atlas.rs).  The struct has no fields; `call` is the call    *)
(* that has its result and `returned` the tile each key got last.          *)
(***************************************************************************)
NoGlAtlasCalls == [call |-> None, returned |-> [k \in Keys |-> None]]

\* lines 13-21: the tile every call returns.
GlTile ==
    [texture_id |-> [index |-> 0, kind |-> Monochrome], tile_id |-> 0,
     padding |-> 0, size |-> [width |-> 0, height |-> 0]]

\* GlAtlas::get_or_insert_with (lines 5-22): `build` is not called and the
\* result is Ok(Some(tile)) with the fixed tile.
GlGetOrInsertWith(key) ==
    gl_atlas' =
        [call |-> Some([op |-> "get_or_insert_with", key |-> key,
                        built |-> FALSE,
                        result |-> [tag |-> "Some", tile |-> Some(GlTile)]]),
         returned |-> [gl_atlas.returned EXCEPT ![key] = Some(GlTile)]]

\* GlAtlas::remove (lines 24-26): nothing but the println.
GlRemove(key) ==
    gl_atlas' =
        [call |-> Some([op |-> "remove", key |-> key, built |-> FALSE,
                        result |-> [tag |-> "Unit", tile |-> None]]),
         returned |-> [gl_atlas.returned EXCEPT ![key] = None]]

\* The caller takes the result of the GlAtlas call.
GlAtlasReturn ==
    /\ IsSome(gl_atlas.call)
    /\ gl_atlas' = [gl_atlas EXCEPT !.call = None]

(***************************************************************************)
(* GlRenderer.                                                             *)
(***************************************************************************)
\* No GlRenderer exists.
NoGlRenderer ==
    [egl_surface |-> "none", egl_context |-> "none", egl_display |-> "none",
     viewport |-> None, last_destroy |-> None]

\* GlRenderer::new, lines 134-142: the fields after a successful creation.
NewGlRenderer ==
    [egl_surface |-> "live", egl_context |-> "live", egl_display |-> "live",
     viewport |-> None, last_destroy |-> None]

\* eglDestroySurface / eglDestroyContext / eglTerminate on `handle`: a live
\* object is released, anything else is an error the caller sees.
EglRelease(handle) == IF handle = "live" THEN "destroyed" ELSE handle

\* The names of the objects among `names` that the calls of destroy
\* release, in the order of the calls.
RECURSIVE ReleasedNow(_, _)
ReleasedNow(r, names) ==
    IF names = << >> THEN << >>
    ELSE (IF r[Head(names)] = "live" THEN << Head(names) >> ELSE << >>)
         \o ReleasedNow(r, Tail(names))

\* GlRenderer::draw (lines 147-157): clear and swap_buffers; the swap
\* needs the surface.
GlDraw ==
    /\ gl_renderer.egl_surface = "live"
    /\ gl_renderer' = gl_renderer
    /\ UNCHANGED << creation, gl_atlas, current_context >>

\* GlRenderer::update_drawable_size (lines 167-174).
GlUpdateDrawableSize(size) ==
    /\ gl_renderer.egl_surface = "live"
    /\ gl_renderer' = [gl_renderer EXCEPT !.viewport = Some(size)]
    /\ UNCHANGED << creation, gl_atlas, current_context >>

\* GlRenderer::destroy (lines 180-186): make_current(None), then
\* destroy_surface, destroy_context, terminate; every result is dropped.
GlDestroy ==
    /\ gl_renderer.egl_display # "none"
    /\ current_context' = "none"
    /\ gl_renderer' =
          [gl_renderer EXCEPT
              !.egl_surface = EglRelease(@),
              !.egl_context = EglRelease(@),
              !.egl_display = EglRelease(@),
              !.last_destroy =
                  Some(ReleasedNow(gl_renderer,
                           << "egl_surface", "egl_context", "egl_display" >>))]
    /\ UNCHANGED << creation, gl_atlas >>

(***************************************************************************)
(* create_renderer.                                                        *)
(***************************************************************************)
\* What window.display_handle() / window.window_handle() give: no handle,
\* or a handle of the named windowing system.
Handles == { "unavailable", "wayland", "xlib", "appkit" }

\* The first library call of `new` that fails when it is reached.
LibraryFailures ==
    { "none", "display", "config", "context", "surface", "make_current",
      "impeller_context", "wrap_fbo" }

\* The size handed to create_renderer.
Configs == DrawableSizes \cup { [width |-> 0, height |-> 4] }

Windows ==
    [display_handle : Handles, window_handle : Handles,
     fails : LibraryFailures, config : Configs]

\* No renderer was asked for.
NoCreation ==
    [window |-> None, impeller |-> "", gl |-> "",
     impeller_live |-> {}, gl_live |-> {}]

\* glutin's EGL display (lines 45-53) exists for these display handles.
EglDisplayFor(handle) == handle \in { "wayland", "xlib" }

\* ImpellerRenderer::new (lines 40-186): "Ok", "Err" or "panic".
ImpellerNewOutcome(w) ==
    IF w.display_handle = "unavailable" THEN "panic"            \* line 49
    ELSE IF ~EglDisplayFor(w.display_handle) \/ w.fails = "display"
         THEN "panic"                                           \* line 54
    ELSE IF w.fails = "config" THEN "panic"                     \* lines 56-66
    ELSE IF w.window_handle = "unavailable" THEN "panic"        \* line 69
    ELSE IF w.fails = "context" THEN "panic"                    \* lines 88-99
    ELSE IF w.window_handle # w.display_handle \/ w.fails = "surface"
         THEN "Err"                                             \* line 108
    ELSE IF w.fails = "make_current" THEN "Err"                 \* line 143
    ELSE IF w.fails = "impeller_context" THEN "panic"           \* lines 144-151
    ELSE IF w.fails = "wrap_fbo" THEN "panic"                   \* lines 163-171
    ELSE "Ok"

\* GlRenderer::new (lines 20-143): "Ok" or "Err".
GlNewOutcome(w) ==
    IF w.display_handle = "unavailable" THEN "Err"              \* lines 26-30
    ELSE IF w.display_handle # "wayland" THEN "Err"             \* lines 32-35
    ELSE IF w.fails = "display" THEN "Err"                      \* lines 36-39
    ELSE IF w.fails = "config" THEN "Err"                       \* lines 61-65
    ELSE IF w.window_handle = "unavailable" THEN "Err"          \* lines 68-72
    ELSE IF w.window_handle # "wayland" THEN "Err"              \* lines 73-76
    ELSE IF w.fails = "surface" THEN "Err"                      \* lines 80-96
    ELSE IF w.fails = "context" THEN "Err"                      \* lines 107-108
    ELSE IF w.fails = "make_current" THEN "Err"                 \* lines 111-116
    ELSE "Ok"

\* The native objects ImpellerRenderer::new acquired that are still live
\* when it does not return a renderer.  The display, the context and the
\* surface are glutin values owned by locals of `new` (lines 45-54, 88-99,
\* 108): leaving the function, by `?` or by unwinding, drops them.
ImpellerLive(w) == {}

\* The native objects GlRenderer::new acquired that are still live when it
\* returns Err.  egl::Display, egl::Surface and egl::Context are plain
\* handles of khronos_egl: nothing terminates or destroys them when `?`
\* leaves the function.  The WlEglSurface (lines 80-85) is dropped.
GlLive(w) ==
    IF w.display_handle # "wayland" \/ w.fails = "display" THEN {}
    ELSE IF \/ w.fails = "config"                           \* lines 61-65
            \/ w.window_handle # "wayland"                  \* lines 68-76
            \/ w.fails = "surface"                          \* lines 80-95
         THEN { "egl_display" }                              \* line 39
    ELSE IF w.fails = "context"                              \* lines 107-108
         THEN { "egl_display", "egl_surface" }               \* lines 88-95
    ELSE IF w.fails = "make_current"                         \* lines 111-116
         THEN { "egl_display", "egl_surface", "egl_context" }
    ELSE {}

Max(a, b) == IF a > b THEN a ELSE b

\* No ImpellerRenderer exists.
NoRenderer ==
    /\ drawable_size = [width |-> 0, height |-> 0]
    /\ framebuffer = None
    /\ transparent = FALSE
    /\ preserved_texture = None
    /\ preserved_gl_texture = None
    /\ scissor_test = FALSE
    /\ last_draw = None
    /\ current_context = "none"
    /\ live_gl_textures = 0
    /\ foreign_calls = {}
    /\ destroy_calls = 0
    /\ last_destroy = None

\* ImpellerContext::create_renderer (impeller_context.rs, lines 14-22) on
\* the window: ImpellerRenderer::new.
ImpellerCreateRenderer ==
    /\ IsSome(creation.window)
    /\ creation.impeller = ""
    /\ LET w == Unwrap(creation.window)
           outcome == ImpellerNewOutcome(w)
       IN  /\ creation' = [creation EXCEPT !.impeller = outcome,
                                           !.impeller_live = ImpellerLive(w)]
           /\ IF outcome = "Ok"
              THEN /\ drawable_size' = [width |-> Max(w.config.width, 1),
                                        height |-> Max(w.config.height, 1)]
                   /\ framebuffer' = Some(drawable_size')
                   /\ current_context' = "impeller"
                   /\ context' = Some("impeller_context")
              ELSE /\ UNCHANGED << drawable_size, framebuffer, context >>
                   /\ current_context' =
                          IF w.fails \in { "impeller_context", "wrap_fbo" }
                             /\ outcome = "panic"
                          THEN "impeller" ELSE current_context
    /\ UNCHANGED << transparent, preserved_texture, preserved_gl_texture,
                    scissor_test, last_draw, live_gl_textures, foreign_calls,
                    destroy_calls, last_destroy, gl_renderer, gl_atlas >>

\* GlContext::create_renderer (gl_context.rs): GlRenderer::new.
GlCreateRenderer ==
    /\ IsSome(creation.window)
    /\ creation.gl = ""
    /\ LET outcome == GlNewOutcome(Unwrap(creation.window))
       IN  /\ creation' = [creation EXCEPT !.gl = outcome,
                                           !.gl_live = GlLive(Unwrap(creation.window))]
           /\ IF outcome = "Ok"
              THEN /\ gl_renderer' = NewGlRenderer
                   /\ current_context' = "egl"
              ELSE UNCHANGED << gl_renderer, current_context >>
    /\ UNCHANGED << framebuffer, transparent, drawable_size, preserved_texture,
                    preserved_gl_texture, scissor_test, last_draw,
                    live_gl_textures, foreign_calls, destroy_calls,
                    last_destroy, context, gl_atlas >>

(***************************************************************************)
(* The atlas used from several threads.                                    *)
(***************************************************************************)
\* The build is a debug build (overflow checks on) or a release build.
Init ==
    /\ AtlasInit
    /\ overflow_checks \in BOOLEAN
    /\ context = None
    /\ RendererInit
    /\ drawable_size = [width |-> 4, height |-> 4]
    /\ gl_renderer = NoGlRenderer
    /\ creation = NoCreation
    /\ gl_atlas = NoGlAtlasCalls
    /\ NoLockCalls
    /\ atlas_handle = None
    /\ NoPureCalls

Next ==
    \/ SetContext
    \/ \E t \in Threads :
          \/ \E key \in Keys : GiLock(t, key)
          \/ \E r \in BuildResults : GiBuild(t, r)
          \/ GiTextureId(t)
          \/ GiIncTextureId(t)
          \/ GiTileId(t)
          \/ GiIncTileId(t)
          \/ \E gpu_ok \in BOOLEAN : GiUpload(t, gpu_ok)
          \/ GiInsertTexture(t)
          \/ GiInsertTile(t)
          \/ \E key \in Keys : Remove(t, key)
          \/ Return(t)

Spec == Init /\ [][Next]_vars

(***************************************************************************)
(* One renderer and its atlas, driven from the thread that owns it.        *)
(***************************************************************************)
MainThread == "t1"

\* Builder results for the keys whose tiles the scenes refer to: two bytes
\* are right for a 2x1 Monochrome tile, eight for a 2x1 Polychrome tile.
SpriteBuildResults ==
    { [tag |-> "Some", size |-> Some([width |-> 2, height |-> 1]), len |-> n] :
          n \in {2, 8} }

\* ImpellerRenderer::new, lines 160-184: the atlas has its context.  No
\* size of SpriteBuildResults overflows a u32, so one build profile is
\* enough here.
InitRender ==
    /\ AtlasInit
    /\ overflow_checks = FALSE
    /\ context = Some("impeller_context")
    /\ RendererInit
    /\ gl_renderer = NoGlRenderer
    /\ creation = NoCreation
    /\ gl_atlas = NoGlAtlasCalls
    /\ NoLockCalls
    /\ atlas_handle = None
    /\ NoPureCalls

\* The renderer's operations run on its thread, outside any atlas call of
\* that thread, and do not write the atlas.
OnMainThread ==
    /\ pc[MainThread] = "idle"
    /\ UNCHANGED << atlas_vars, context, state_lock, overflow_checks, caller_vars,
                    obs_vars, backend_vars, atlas_handle, pure_vars, lock_vars >>

NextRender ==
    \/ /\ NotDrawing
       /\ pc[MainThread] = "idle"
       /\ SpriteAtlas
    \/ /\ NotDrawing
       /\ atlas_handle = Some("sprite_atlas")
       /\ \/ \E key \in Keys : GiLock(MainThread, key)
          \/ \E r \in SpriteBuildResults : GiBuild(MainThread, r)
          \/ GiTextureId(MainThread)
          \/ GiIncTextureId(MainThread)
          \/ GiTileId(MainThread)
          \/ GiIncTileId(MainThread)
          \/ GiUpload(MainThread, TRUE)
          \/ GiInsertTexture(MainThread)
          \/ GiInsertTile(MainThread)
          \/ Return(MainThread)
    \/ \E scene \in Scenes, texture_ok \in BOOLEAN :
          Draw(scene, texture_ok) /\ OnMainThread
    \/ \E size \in DrawableSizes, fbo_ok \in BOOLEAN :
          UpdateDrawableSize(size, fbo_ok) /\ OnMainThread
    \/ \E flag \in BOOLEAN : UpdateTransparency(flag) /\ OnMainThread
    \/ DrawReturn /\ OnMainThread

SpecRender == InitRender /\ [][NextRender]_vars

(***************************************************************************)
(* Several windows on one thread: the ImpellerRenderer, a GlRenderer and   *)
(* another ImpellerRenderer, whose operations make its own context         *)
(* current.                                                                *)
(***************************************************************************)
\* The scenes drawn here: one quad, with and without a changed region.
WindowScenes ==
    { [changed_bounds |-> c,
       batches |-> << [kind |-> "Quads", texture_id |-> None,
                       elems |-> << Element(Rect(1, 1, 2, 2)) >>] >>] :
          c \in ChangedBounds }

InitWindows ==
    /\ AtlasInit
    /\ overflow_checks = FALSE
    /\ context = Some("impeller_context")
    /\ RendererInit
    /\ gl_renderer = NewGlRenderer
    /\ creation = NoCreation
    /\ gl_atlas = NoGlAtlasCalls
    /\ NoLockCalls
    /\ atlas_handle = None
    /\ NoPureCalls

\* An operation of the ImpellerRenderer: it leaves the atlas and the other
\* renderers alone.
RendererOp ==
    UNCHANGED << atlas_vars, context, state_lock, overflow_checks, caller_vars,
                 obs_vars, backend_vars, atlas_handle, pure_vars, lock_vars >>

\* An operation of another renderer: it leaves the fields of the
\* ImpellerRenderer alone.
OtherOp ==
    /\ NotDrawing
    /\ UNCHANGED << atlas_vars, context, state_lock, overflow_checks, caller_vars,
                    obs_vars, framebuffer, transparent, drawable_size,
                    preserved_texture, preserved_gl_texture, scissor_test,
                    last_draw, live_gl_textures, foreign_calls, destroy_calls,
                    last_destroy, atlas_handle, pure_vars, lock_vars >>

\* draw or update_drawable_size of another ImpellerRenderer (lines 196-200,
\* 1087-1091): its context becomes the current one.
OtherRendererCurrent ==
    /\ current_context' = "other"
    /\ UNCHANGED backend_vars

NextWindows ==
    \/ \E scene \in WindowScenes, texture_ok \in BOOLEAN :
          Draw(scene, texture_ok) /\ RendererOp
    \/ DrawReturn /\ RendererOp
    \/ \E size \in DrawableSizes, fbo_ok \in BOOLEAN :
          UpdateDrawableSize(size, fbo_ok) /\ RendererOp
    \/ \E flag \in BOOLEAN : UpdateTransparency(flag) /\ RendererOp
    \/ Destroy /\ RendererOp
    \/ OtherRendererCurrent /\ OtherOp
    \/ GlDraw /\ OtherOp
    \/ \E size \in DrawableSizes : GlUpdateDrawableSize(size) /\ OtherOp
    \/ GlDestroy /\ OtherOp

SpecWindows == InitWindows /\ [][NextWindows]_vars

(***************************************************************************)
(* create_renderer of both backends on one window.                         *)
(***************************************************************************)
InitCreate ==
    /\ AtlasInit
    /\ overflow_checks = FALSE
    /\ context = None
    /\ NoRenderer
    /\ gl_renderer = NoGlRenderer
    /\ creation \in { [NoCreation EXCEPT !.window = Some(w)] : w \in Windows }
    /\ gl_atlas = NoGlAtlasCalls
    /\ NoLockCalls
    /\ atlas_handle = None
    /\ NoPureCalls

NextCreate ==
    /\ \/ ImpellerCreateRenderer
       \/ GlCreateRenderer
    /\ UNCHANGED << atlas_vars, state_lock, overflow_checks, caller_vars, obs_vars,
                    atlas_handle, pure_vars, lock_vars >>

SpecCreate == InitCreate /\ [][NextCreate]_vars

(***************************************************************************)
(* Properties of the atlas.                                                *)
(***************************************************************************)
KeyOf(t) == Unwrap(frame[t].key)

\* Thread t is about to return from get_or_insert_with.
GetReturning(t) == pc[t] = "return" /\ frame[t].op = "get_or_insert_with"

\* Thread t takes the step in which remove() changes the maps.
RemoveStep(t) == pc[t] = "idle" /\ pc'[t] = "return" /\ frame'[t].op = "remove"

\* C1: a get_or_insert_with(k) that returns a tile after an earlier call
\* returned a tile for k, with no remove(k) in between, returns the same
\* texture_id and tile_id and has not invoked the builder.
C1_IdempotentLookup ==
    \A t \in Threads :
        (GetReturning(t) /\ frame[t].result.tag = "Some" /\ IsSome(hist[KeyOf(t)].tile)) =>
            LET first  == Unwrap(hist[KeyOf(t)].tile)
                second == Unwrap(frame[t].result.tile)
            IN  /\ second.texture_id = first.texture_id
                /\ second.tile_id = first.tile_id
                /\ ~frame[t].built

C1_Witness ==
    \E t \in Threads :
        /\ GetReturning(t)
        /\ frame[t].result.tag = "Some"
        /\ IsSome(hist[KeyOf(t)].tile)
        /\ ~frame[t].built

C2_NoStaleHit ==
    \A t \in Threads :
        (GetReturning(t) /\ hist[KeyOf(t)].removed) => frame[t].built

C2_HitReturnsMapped ==
    \A t \in Threads :
        (GetReturning(t) /\ ~frame[t].built) =>
            /\ IsSome(tiles_by_key[KeyOf(t)])
            /\ frame[t].result.tile = tiles_by_key[KeyOf(t)]

C2_RemoveKeepsOthers ==
    \A t \in Threads :
        RemoveStep(t) =>
            LET key == Unwrap(frame'[t].key) IN
            /\ tiles_by_key'[key] = None
            /\ \A k2 \in Keys \ {key} :
                  /\ tiles_by_key'[k2] = tiles_by_key[k2]
                  /\ IsSome(tiles_by_key[k2]) =>
                        LET id == Unwrap(tiles_by_key[k2]).texture_id IN
                        /\ id \in DOMAIN textures
                        /\ id \in DOMAIN textures'
                        /\ textures'[id] = textures[id]

\* C2: after remove(k) the next get_or_insert_with(k) invokes the builder,
\* and remove(k) leaves every other key's tile and texture entry as they
\* were, so that a hit for another key still returns its tile.
C2_RemovalCorrect ==
    [][C2_NoStaleHit' /\ C2_HitReturnsMapped' /\ C2_RemoveKeepsOthers]_vars

C2_Witness ==
    \E t \in Threads :
        /\ GetReturning(t)
        /\ hist[KeyOf(t)].removed
        /\ frame[t].built
        /\ \E k2 \in Keys \ {KeyOf(t)} :
              /\ IsSome(tiles_by_key[k2])
              /\ IsSome(get_texture(Unwrap(tiles_by_key[k2]).texture_id))

\* C3: a miss whose builder returns Ok(None) returns None and leaves the
\* tile map, the texture map and both counters as they were before the call.
C3_NothingToDraw ==
    [][\A t \in Threads :
          /\ (pc[t] = "idle" /\ pc'[t] = "build") => UNCHANGED atlas_vars
          /\ (pc[t] = "build" /\ pc'[t] = "return" /\ frame'[t].result.tag = "None") =>
                /\ frame'[t].result.tile = None
                /\ UNCHANGED atlas_vars
          /\ (pc[t] = "return" /\ pc'[t] = "idle") => UNCHANGED atlas_vars]_vars

C3_Witness ==
    \E t \in Threads :
        /\ GetReturning(t)
        /\ frame[t].result.tag = "None"
        /\ frame[t].built
        /\ next_tile_id > 0

\* The builder's byte count differs from width * height (Monochrome) or
\* width * height * 4 (Polychrome), in exact arithmetic.
SizeMismatch(kind, size, len) ==
    LET wh  == MulU32(size.width, size.height)
        wh4 == MulU32By4(wh)
    IN  IF kind = Monochrome
        THEN wh.overflow \/ ~U32Equals(wh, len)
        ELSE wh4.overflow \/ ~U32Equals(wh4, len)

\* C4: a builder whose byte count does not match the size never makes
\* get_or_insert_with panic and never gets a GPU texture: the call returns
\* a tile whose texture id has no texture.
C4_PixelSizeContract ==
    \A t \in Threads :
        (/\ pc[t] \in {"insert_texture", "insert_tile", "return"}
         /\ frame[t].op = "get_or_insert_with"
         /\ IsSome(frame[t].size)
         /\ SizeMismatch(texture_kind(KeyOf(t)), Unwrap(frame[t].size), frame[t].len)) =>
            /\ frame[t].gpu_texture = None
            /\ pc[t] = "return" =>
                  /\ frame[t].result.tag = "Some"
                  /\ ~IsSome(get_texture(Unwrap(frame[t].result.tile).texture_id))

\* C5: remove(k) of a key that is not mapped returns normally and leaves the
\* tile map, the texture map and both counters unchanged.
C5_RemoveUnknownNoop ==
    [][\A t \in Threads :
          /\ (RemoveStep(t) /\ ~IsSome(tiles_by_key[Unwrap(frame'[t].key)])) =>
                /\ frame'[t].result.tag = "Unit"
                /\ UNCHANGED atlas_vars
          /\ (pc[t] = "return" /\ pc'[t] = "idle") => UNCHANGED atlas_vars]_vars

C5_Witness ==
    \E t \in Threads :
        /\ pc[t] = "return"
        /\ frame[t].op = "remove"
        /\ hist[KeyOf(t)].removed
        /\ DOMAIN textures # {}

\* C6: every tile in the key map has a texture_id that is a key of the
\* texture map.
C6_TileTextureLive ==
    \A k \in Keys :
        IsSome(tiles_by_key[k]) => Unwrap(tiles_by_key[k]).texture_id \in DOMAIN textures

C6_Witness ==
    \E k \in Keys :
        /\ IsSome(tiles_by_key[k])
        /\ ~IsSome(get_texture(Unwrap(tiles_by_key[k]).texture_id))
        /\ \E k2 \in Keys : hist[k2].removed

\* C7: the counters never decrease, and every tile is created with a
\* texture index and a tile id greater than those of every tile created
\* before it.
C7_IdsNeverReused ==
    [][/\ next_texture_id' >= next_texture_id
       /\ next_tile_id' >= next_tile_id
       /\ \A t \in Threads :
             (pc[t] = "insert_tile" /\ pc'[t] = "return") =>
                 LET tile == Unwrap(frame'[t].result.tile) IN
                 /\ tile.texture_id.index > last_created.texture_index
                 /\ tile.tile_id > last_created.tile_id]_vars

C7_Witness ==
    /\ last_created.count > Cardinality(Keys)
    /\ \E k \in Keys : IsSome(tiles_by_key[k])

\* C8: concurrent calls do not corrupt the counters: ids held by different
\* threads and tiles are distinct, with no call in progress each counter
\* equals the number of tiles created, and a created tile is in the map.
C8_CountersNotCorrupted ==
    /\ \A t1, t2 \in Threads :
          (t1 # t2 /\ IsSome(frame[t1].texture_id) /\ IsSome(frame[t2].texture_id)) =>
              frame[t1].texture_id # frame[t2].texture_id
    /\ \A t1, t2 \in Threads :
          (t1 # t2 /\ IsSome(frame[t1].tile_id) /\ IsSome(frame[t2].tile_id)) =>
              frame[t1].tile_id # frame[t2].tile_id
    /\ \A k1, k2 \in Keys :
          (k1 # k2 /\ IsSome(tiles_by_key[k1]) /\ IsSome(tiles_by_key[k2])) =>
              /\ Unwrap(tiles_by_key[k1]).texture_id # Unwrap(tiles_by_key[k2]).texture_id
              /\ Unwrap(tiles_by_key[k1]).tile_id # Unwrap(tiles_by_key[k2]).tile_id
    /\ (\A t \in Threads : pc[t] = "idle") =>
          /\ next_texture_id = last_created.count
          /\ next_tile_id = last_created.count
    /\ \A t \in Threads :
          (GetReturning(t) /\ frame[t].built /\ frame[t].result.tag = "Some") =>
              tiles_by_key[KeyOf(t)] = frame[t].result.tile

\* C9: for one missing key the builder produces pixels at most twice before
\* the key is mapped, every caller whose builder produced pixels receives a
\* tile, and the key is then mapped to the tile received.
C9_AtMostOneDuplicateBuild ==
    /\ \A k \in Keys : pixel_builds[k] <= 2
    /\ \A t \in Threads :
          (GetReturning(t) /\ IsSome(frame[t].size)) =>
              /\ frame[t].result.tag = "Some"
              /\ tiles_by_key[KeyOf(t)] = frame[t].result.tile

(***************************************************************************)
(* Properties of the renderer.                                             *)
(***************************************************************************)
\* The display list of the running draw has a command issued for element e
\* of batch b.
Rasterized(b, e) ==
    \E i \in 1..Len(Unwrap(last_draw).display_list) :
        /\ Unwrap(last_draw).display_list[i].batch = b
        /\ Unwrap(last_draw).display_list[i].elem = e

\* C10: in a draw with changed_bounds = Some(r), an element of any primitive
\* kind that has something to draw is rasterized if and only if its bounds
\* intersect r.
C10_CullingConservative ==
    (IsSome(last_draw) /\ IsSome(Unwrap(last_draw).scene.changed_bounds)) =>
        LET scene == Unwrap(last_draw).scene
            r     == Unwrap(scene.changed_bounds)
        IN  \A b \in 1..Len(scene.batches) :
               scene.batches[b].kind # "Surfaces" =>
                  \A e \in 1..Len(scene.batches[b].elems) :
                     ~scene.batches[b].elems[e].empty =>
                        (intersects(scene.batches[b].elems[e].bounds, r)
                            <=> Rasterized(b, e))

\* C11: a draw with changed_bounds = Some(r) that starts without a preserved
\* texture builds the display list of the same scene with changed_bounds =
\* None and leaves the scissor test as that draw does.
C11_ResizeInvalidation ==
    [][(/\ NotDrawing
        /\ IsSome(last_draw')
        /\ preserved_texture = None
        /\ IsSome(Unwrap(last_draw').scene.changed_bounds))
       => LET d    == Unwrap(last_draw')
              full == [d.scene EXCEPT !.changed_bounds = None]
          IN  /\ d.display_list = DisplayList(full, None)
              /\ ~d.scissor
              /\ scissor_test' = scissor_test]_vars

\* The commands of the running draw issued for element e of batch b.
CommandsOf(b, e) ==
    SelectSeq(Unwrap(last_draw).display_list,
              LAMBDA c : c.batch = b /\ c.elem = e)

\* Batch b of the running draw is a sprite batch whose texture the atlas
\* does not have.
FallbackBatch(b) ==
    LET batch == Unwrap(last_draw).scene.batches[b]
    IN  /\ IsSome(SpriteKind(batch.kind))
        /\ get_texture(Unwrap(batch.texture_id)) = None

\* C12: in a draw, every sprite of a sprite batch whose texture the atlas
\* does not have gets exactly one command, a rectangle of the sprite.
C12_SpriteFallback ==
    IsSome(last_draw) =>
        \A b \in 1..Len(Unwrap(last_draw).scene.batches) :
            FallbackBatch(b) =>
                \A e \in 1..Len(Unwrap(last_draw).scene.batches[b].elems) :
                    /\ Len(CommandsOf(b, e)) = 1
                    /\ CommandsOf(b, e)[1].op \in { "draw_rect", "draw_rounded_rect" }

\* A draw with a changed region of a sprite batch whose texture entry holds
\* no GPU texture (the build failed), one sprite lying outside the region.
C12_Witness ==
    /\ IsSome(last_draw)
    /\ IsSome(Unwrap(last_draw).scene.changed_bounds)
    /\ \E b \in 1..Len(Unwrap(last_draw).scene.batches) :
          LET batch == Unwrap(last_draw).scene.batches[b]
          IN  /\ FallbackBatch(b)
              /\ Unwrap(batch.texture_id) \in DOMAIN textures
              /\ \E e \in 1..Len(batch.elems) :
                    ~intersects(batch.elems[e].bounds,
                                Unwrap(Unwrap(last_draw).scene.changed_bounds))

\* C13: the GL scissor test is off when draw returns and in every state
\* between two renderer operations.
C13_ScissorDisabled ==
    (IsSome(last_draw) \/ NotDrawing) => ~scissor_test

\* C14: a draw that returns has submitted its display list and presented
\* the surface.
C14_PresentsOrFails ==
    IsSome(last_draw) =>
        /\ Unwrap(last_draw).submitted
        /\ Unwrap(last_draw).presented

\* C15: no GL call of a renderer operation is issued while another
\* context, or none, is the thread's current context.
C15_OwnContextCurrent ==
    foreign_calls = {}

Range(seq) == { seq[i] : i \in 1..Len(seq) }

\* a and b are both in seq, a before b.
ReleasedBefore(seq, a, b) ==
    \E i, j \in 1..Len(seq) : i < j /\ seq[i] = a /\ seq[j] = b

\* C16: the first destroy() of a renderer releases the preserved textures
\* and the framebuffer wrapper before the context, the surface before the
\* context and the context before the display, and releases all of them.
C16_ReleaseOrder ==
    [][/\ (destroy_calls = 0 /\ destroy_calls' = 1) =>
             LET rel == Unwrap(last_destroy')
             IN  /\ framebuffer' = None
                 /\ preserved_texture' = None
                 /\ preserved_gl_texture' = None
                 /\ \A held \in Range(rel) \ { "gl_surface", "gl_context", "gl_display" } :
                        ReleasedBefore(rel, held, "gl_context")
                 /\ ReleasedBefore(rel, "gl_surface", "gl_context")
                 /\ ReleasedBefore(rel, "gl_context", "gl_display")
       /\ (gl_renderer.last_destroy = None /\ gl_renderer'.last_destroy # None) =>
             LET rel == Unwrap(gl_renderer'.last_destroy)
             IN  /\ ReleasedBefore(rel, "egl_surface", "egl_context")
                 /\ ReleasedBefore(rel, "egl_context", "egl_display")
                 /\ gl_renderer'.egl_surface = "destroyed"
                 /\ gl_renderer'.egl_context = "destroyed"
                 /\ gl_renderer'.egl_display = "destroyed"]_vars

\* C17: destroy() releases only what is there: an absent framebuffer or
\* texture is not released again, no native texture is deleted twice, and a
\* destroy() that finds nothing changes nothing.
C17_DestroyTolerant ==
    [][/\ destroy_calls' > destroy_calls =>
             LET rel == Unwrap(last_destroy')
             IN  /\ "framebuffer" \in Range(rel) => IsSome(framebuffer)
                 /\ "preserved_texture" \in Range(rel) => IsSome(preserved_texture)
                 /\ "preserved_gl_texture" \in Range(rel) => IsSome(preserved_gl_texture)
                 /\ preserved_gl_texture = None =>
                        /\ live_gl_textures' = live_gl_textures
                        /\ foreign_calls' = foreign_calls
                 /\ rel = << >> =>
                        UNCHANGED << framebuffer, transparent, drawable_size,
                                     preserved_texture, preserved_gl_texture,
                                     scissor_test, last_draw, current_context >>
       /\ live_gl_textures' >= 0
       /\ gl_renderer'.last_destroy # gl_renderer.last_destroy =>
             \A name \in Range(Unwrap(gl_renderer'.last_destroy)) :
                 gl_renderer[name] = "live" /\ gl_renderer'[name] = "destroyed"]_vars

\* Both renderers were destroyed a second time, with nothing left to
\* release.
C17_Witness ==
    /\ destroy_calls = 2
    /\ last_destroy = Some(<< >>)
    /\ gl_renderer.last_destroy = Some(<< >>)

\* C18: after destroy() the renderer never again holds a framebuffer
\* wrapper or a preserved texture, and no draw submits or presents.
C18_DestroyedTerminal ==
    destroy_calls > 0 =>
        /\ framebuffer = None
        /\ preserved_texture = None
        /\ preserved_gl_texture = None
        /\ IsSome(last_draw) =>
              /\ ~Unwrap(last_draw).submitted
              /\ ~Unwrap(last_draw).presented

\* The window's handles are unavailable or not usable by the backend.
ImpellerIncompatible(w) ==
    \/ w.display_handle = "unavailable"
    \/ w.window_handle = "unavailable"
    \/ ~EglDisplayFor(w.display_handle)
    \/ w.window_handle # w.display_handle

GlIncompatible(w) ==
    \/ w.display_handle # "wayland"
    \/ w.window_handle # "wayland"

\* C19: create_renderer of either backend on a window whose handles are
\* unavailable or incompatible returns an error.
C19_CreateFailsCleanly ==
    LET w == Unwrap(creation.window)
    IN  /\ (creation.impeller # "" /\ ImpellerIncompatible(w)) =>
               creation.impeller = "Err"
        /\ (creation.gl # "" /\ GlIncompatible(w)) =>
               creation.gl = "Err"

\* C20: a step that changes the transparency flag changes nothing else, and
\* a draw paints its background with the paint the flag selects (opaque
\* for the initial flag).
C20_TransparencyOnlyBackground ==
    [][/\ transparent' # transparent =>
             UNCHANGED << atlas_vars, context, framebuffer, drawable_size,
                          preserved_texture, preserved_gl_texture, scissor_test,
                          last_draw, current_context, live_gl_textures,
                          foreign_calls >>
       /\ (NotDrawing /\ IsSome(last_draw')) =>
             /\ transparent' = transparent
             /\ Unwrap(last_draw').background =
                    (IF transparent THEN "transparent" ELSE "BLACKBERRY")]_vars

\* A draw after update_transparency(true) that still has the preserved
\* frame of the draw before.
C20_Witness ==
    /\ IsSome(last_draw)
    /\ Unwrap(last_draw).background = "transparent"
    /\ Unwrap(last_draw).display_list[1].op = "save"

\* Batch b of the running draw is a sprite batch whose texture id is that
\* of a tile a get_or_insert_with call returned and whose texture was
\* uploaded.
BuiltBatch(b) ==
    LET batch == Unwrap(last_draw).scene.batches[b]
    IN  /\ IsSome(SpriteKind(batch.kind))
        /\ Unwrap(batch.texture_id) \in DOMAIN textures
        /\ IsSome(textures[Unwrap(batch.texture_id)].texture)
        /\ \E k \in Keys :
              /\ IsSome(hist[k].tile)
              /\ Unwrap(hist[k].tile).texture_id = Unwrap(batch.texture_id)

\* Element e of batch b of the running draw was drawn with the texture.
DrawnTextured(b, e) ==
    \E i \in 1..Len(CommandsOf(b, e)) : CommandsOf(b, e)[i].op = "draw_texture_rect"

\* C21: every handle sprite_atlas returned points to the renderer's atlas,
\* and a draw finds the texture of every tile built through the handle: the
\* sprites of a batch with that texture id are drawn with the texture.
C21_SharedAtlas ==
    /\ atlas_handle \in { None, Some("sprite_atlas") }
    /\ IsSome(last_draw) =>
          \A b \in 1..Len(Unwrap(last_draw).scene.batches) :
              BuiltBatch(b) =>
                  \A e \in 1..Len(Unwrap(last_draw).scene.batches[b].elems) :
                      \/ Culled(Unwrap(last_draw).scene.changed_bounds,
                                Unwrap(last_draw).scene.batches[b].elems[e])
                      \/ DrawnTextured(b, e)

\* A draw of a sprite batch whose texture was built through the handle.
C21_Witness ==
    /\ atlas_handle = Some("sprite_atlas")
    /\ IsSome(last_draw)
    /\ \E b \in 1..Len(Unwrap(last_draw).scene.batches) :
          BuiltBatch(b) /\ DrawnTextured(b, 1)

\* C22: a draw leaves the atlas as it is (tiles, textures, id counters), and
\* a tile or texture is created only inside a get_or_insert_with call for a
\* key that has no tile.
C22_CacheReuse ==
    [][/\ (NotDrawing /\ IsSome(last_draw')) =>
             UNCHANGED << atlas_vars, last_created >>
       /\ (atlas_vars' # atlas_vars \/ last_created' # last_created) =>
             /\ pc[MainThread] # "idle"
             /\ tiles_by_key[KeyOf(MainThread)] = None]_vars

\* Both keys are built, a frame was drawn, and a later lookup was a hit.
C22_Witness ==
    /\ \A k \in Keys : IsSome(tiles_by_key[k])
    /\ last_created.count = 2
    /\ IsSome(preserved_texture)
    /\ GetReturning(MainThread)
    /\ ~frame[MainThread].built
    /\ frame[MainThread].result.tag = "Some"

\* lines 217-224: the paint is Paint::default() with only its colour set,
\* so it is composited source-over: it hides what is under it only when
\* its colour is opaque.
Covers(paint) == paint = "BLACKBERRY"

\* lines 226-243: the display list of the running draw starts with the blit
\* of the preserved image of the frame before.
PreservedBlit ==
    \E i \in 1..Len(Unwrap(last_draw).display_list) :
        /\ Unwrap(last_draw).display_list[i].op = "draw_texture_rect"
        /\ Unwrap(last_draw).display_list[i].batch = 0

\* The frame before is blitted and the background paint does not hide it.
EarlierFrameVisible ==
    PreservedBlit /\ ~Covers(Unwrap(last_draw).background)

\* C23: in a draw with changed_bounds = None nothing of an earlier frame
\* remains visible, whatever the transparency flag and whether or not a
\* preserved image exists.
C23_FullRepaint ==
    (IsSome(last_draw) /\ Unwrap(last_draw).scene.changed_bounds = None) =>
        ~EarlierFrameVisible

\* The framebuffer wrapper and the two preserved textures, where present,
\* have the drawable size.
SizesAgree ==
    /\ IsSome(framebuffer) => Unwrap(framebuffer) = drawable_size
    /\ IsSome(preserved_texture) => Unwrap(preserved_texture) = drawable_size
    /\ IsSome(preserved_gl_texture) => Unwrap(preserved_gl_texture) = drawable_size

\* C24: the framebuffer wrapper and the preserved textures, when present,
\* have exactly the current drawable size, and a step that changes the
\* drawable size or rewraps the framebuffer (update_drawable_size) leaves
\* no preserved texture.
C24_SizesAgree ==
    [][/\ SizesAgree
       /\ SizesAgree'
       /\ (\/ drawable_size' # drawable_size
           \/ (framebuffer' # framebuffer /\ destroy_calls' = destroy_calls)) =>
              /\ preserved_texture' = None
              /\ preserved_gl_texture' = None]_vars

\* A draw that found the frame of the draw before it and kept its own: the
\* wrapper and both preserved textures are present.
C24_Witness ==
    /\ IsSome(last_draw)
    /\ PreservedBlit
    /\ IsSome(framebuffer)
    /\ IsSome(preserved_texture)
    /\ IsSome(preserved_gl_texture)
    /\ Unwrap(preserved_texture) = [width |-> 6, height |-> 4]

\* The calls that move pixel data between the GPU and host memory:
\* read_pixels fills the `pixels` vector (lines 1013-1021) and
\* create_texture_with_rgba8 uploads it (1030-1032).
HostTransfers == { "read_pixels", "create_texture_with_rgba8" }

\* C25: a draw keeps its frame with GPU-side copies only; no call reads the
\* pixels back to host memory.
C25_GpuCopyOnly ==
    IsSome(last_draw) =>
        Range(Unwrap(last_draw).preserve_calls) \cap HostTransfers = {}

\* C26: a constructor that does not return a renderer returns an error, and
\* no native resource it acquired earlier in the call is still live.
C26_NoPartialConstruction ==
    /\ creation.impeller \notin { "", "Ok" } =>
          (creation.impeller = "Err" /\ creation.impeller_live = {})
    /\ creation.gl \notin { "", "Ok" } =>
          (creation.gl = "Err" /\ creation.gl_live = {})

(***************************************************************************)
(* The border of a quad (ImpellerRenderer::draw, lines 371-433).           *)
(***************************************************************************)
\* Corner radii and border widths of the quads followed, in pixels.
Radii == { 0, 2, 3 }
Widths == { 0, 1, 3 }

\* A Quad: bounds, corner_radii and border_widths.
Quads ==
    [bounds : { Rect(0, 0, 8, 8) },
     corner_radii : [top_left : Radii, top_right : Radii,
                     bottom_right : Radii, bottom_left : Radii],
     border_widths : [top : Widths, right : Widths,
                      bottom : Widths, left : Widths]]

\* lines 371-374.
has_border(q) ==
    \/ q.border_widths.top > 0
    \/ q.border_widths.right > 0
    \/ q.border_widths.bottom > 0
    \/ q.border_widths.left > 0

\* Variant: the radius is not clamped at zero.
inner_radius_Unclamped(corner, w1, w2) == corner - Max(w1, w2)

\* lines 396-421: (corner - w1.max(w2)).max(0.0).
inner_radius(corner, w1, w2) == Max(corner - Max(w1, w2), 0)

\* lines 395-422: the RoundingRadii of the inner rectangle.
inner_radii(q) ==
    [top_left |->
         inner_radius(q.corner_radii.top_left,
                      q.border_widths.left, q.border_widths.top),
     bottom_left |->
         inner_radius(q.corner_radii.bottom_left,
                      q.border_widths.left, q.border_widths.bottom),
     top_right |->
         inner_radius(q.corner_radii.top_right,
                      q.border_widths.right, q.border_widths.top),
     bottom_right |->
         inner_radius(q.corner_radii.bottom_right,
                      q.border_widths.right, q.border_widths.bottom)]

\* lines 383-394.
inner_rect(q) ==
    Rect(q.bounds.x + q.border_widths.left,
         q.bounds.y + q.border_widths.top,
         q.bounds.w - q.border_widths.left - q.border_widths.right,
         q.bounds.h - q.border_widths.top - q.border_widths.bottom)

\* lines 376-432: the arguments of draw_rounded_rect_difference, or None for
\* a quad without border.
BorderOf(q) ==
    IF has_border(q)
    THEN Some([rect |-> q.bounds, inner_rect |-> inner_rect(q),
               inner_radii |-> inner_radii(q)])
    ELSE None

\* draw reaches the border of the quad.
DrawBorder ==
    /\ IsSome(quad_border)
    /\ ~Unwrap(quad_border).done
    /\ quad_border' = Some([Unwrap(quad_border) EXCEPT
                               !.done = TRUE,
                               !.border = BorderOf(Unwrap(quad_border).quad)])

InitQuad ==
    /\ AtlasInit
    /\ overflow_checks = FALSE
    /\ context = Some("impeller_context")
    /\ RendererInit
    /\ drawable_size = [width |-> 4, height |-> 4]
    /\ gl_renderer = NoGlRenderer
    /\ creation = NoCreation
    /\ gl_atlas = NoGlAtlasCalls
    /\ NoLockCalls
    /\ atlas_handle = None
    /\ upload = None
    /\ scissor_call = None
    /\ quad_border \in { Some([quad |-> q, done |-> FALSE, border |-> None]) :
                            q \in Quads }

NextQuad ==
    /\ DrawBorder
    /\ UNCHANGED << atlas_vars, context, state_lock, overflow_checks, caller_vars,
                    obs_vars, renderer_vars, backend_vars, atlas_handle, upload,
                    scissor_call, lock_vars >>

SpecQuad == InitQuad /\ [][NextQuad]_vars

\* The inner radius the rule gives for outer radius r between edges of
\* widths a and b.
RuleRadius(r, a, b) ==
    LET m == IF a >= b THEN a ELSE b
    IN  IF r > m THEN r - m ELSE 0

\* C27: for a quad with a nonzero border width, each inner corner radius is
\* max(outer radius - max(the two adjacent widths), 0); with uniform radius
\* R and width B it is R - B when B < R and 0 otherwise.
C27_InnerRadii ==
    (IsSome(quad_border) /\ Unwrap(quad_border).done) =>
        LET q == Unwrap(quad_border).quad
            r == q.corner_radii
            w == q.border_widths
            b == Unwrap(quad_border).border
        IN  /\ IsSome(b) <=> (w.top # 0 \/ w.right # 0 \/ w.bottom # 0 \/ w.left # 0)
            /\ IsSome(b) =>
                  /\ Unwrap(b).inner_radii.top_left =
                         RuleRadius(r.top_left, w.left, w.top)
                  /\ Unwrap(b).inner_radii.top_right =
                         RuleRadius(r.top_right, w.right, w.top)
                  /\ Unwrap(b).inner_radii.bottom_left =
                         RuleRadius(r.bottom_left, w.left, w.bottom)
                  /\ Unwrap(b).inner_radii.bottom_right =
                         RuleRadius(r.bottom_right, w.right, w.bottom)
                  /\ \A R \in Radii, B \in Widths :
                        ( /\ r = [top_left |-> R, top_right |-> R,
                                  bottom_right |-> R, bottom_left |-> R]
                          /\ w = [top |-> B, right |-> B, bottom |-> B, left |-> B] )
                        => Unwrap(b).inner_radii =
                               [c \in DOMAIN r |-> IF B < R THEN R - B ELSE 0]

\* A border wider than one corner's radius and narrower than another's: one
\* inner radius is clamped to 0, another is the difference.
C27_Witness ==
    /\ IsSome(quad_border)
    /\ Unwrap(quad_border).done
    /\ IsSome(Unwrap(quad_border).border)
    /\ Unwrap(quad_border).quad.corner_radii.top_left = 2
    /\ Unwrap(quad_border).quad.border_widths.left = 3
    /\ Unwrap(Unwrap(quad_border).border).inner_radii.top_left = 0
    /\ Unwrap(Unwrap(quad_border).border).inner_radii.bottom_right = 2

\* The DisplayListBuilder calls that draw.
DrawOps ==
    { "draw_paint", "draw_rect", "draw_rounded_rect", "draw_path",
      "draw_texture_rect" }

\* The positions of the draw commands in the display list of the running
\* draw.
DrawPositions ==
    { i \in 1..Len(Unwrap(last_draw).display_list) :
          Unwrap(last_draw).display_list[i].op \in DrawOps }

\* C28: the draw commands of the display list follow the batch order of the
\* scene and, within a batch, the element order; the background commands
\* (batch 0) come before every element's command.
C28_PaintOrder ==
    IsSome(last_draw) =>
        \A i, j \in DrawPositions :
            i < j =>
                LET ci == Unwrap(last_draw).display_list[i]
                    cj == Unwrap(last_draw).display_list[j]
                IN  \/ ci.batch < cj.batch
                    \/ (ci.batch = cj.batch /\ ci.elem <= cj.elem)

\* A draw over a preserved frame whose list has draw commands of the
\* background and of two batches.
C28_Witness ==
    /\ IsSome(last_draw)
    /\ PreservedBlit
    /\ Len(Unwrap(last_draw).scene.batches) = 2
    /\ \E i, j \in DrawPositions :
          /\ Unwrap(last_draw).display_list[i].batch = 1
          /\ Unwrap(last_draw).display_list[j].batch = 2

(***************************************************************************)
(* The RGBA payload get_or_insert_with uploads (impeller_atlas.rs, lines   *)
(* 91-161).                                                                *)
(***************************************************************************)
\* Byte values of the buffers followed.
Bytes == { 0, 100, 200, 255 }

\* 4-byte pixels of a polychrome buffer.
Pixels == { << c0, c1, c2, a >> : c0 \in Bytes, c1 \in Bytes, c2 \in Bytes, a \in Bytes }

\* The pixels that follow the first one in the two-pixel buffers.
SecondPixels == { << 100, 200, 255, 200 >>, << 7, 0, 9, 255 >>, << 255, 255, 255, 0 >> }

\* Alpha masks of up to four bytes.
Masks == UNION { [1..n -> Bytes] : n \in 0..4 }

\* Sizes the builder reports with them.
UploadSizes == [width : 0..2, height : 1..2]

\* Variant: the mask goes to the first byte of the pixel.
MonoPixel_AlphaFirst(mask) == << mask, 255, 255, 255 >>

\* lines 105-110: the four bytes pushed for one mask byte.
MonoPixel(mask) == << 255, 255, 255, mask >>

\* Variant: the colour is not scaled by the alpha.
Premultiply_Straight(c, a) == c

\* lines 141-144: (c as f32 * (a as f32 / 255.0)) as u8.  For bytes c and a
\* the f32 product truncates to the integer quotient of c * a by 255.
Premultiply(c, a) == (c * a) \div 255

\* lines 140-146: the four bytes pushed for one chunk of the input.
PolyPixel(chunk) ==
    << Premultiply(chunk[3], chunk[4]),
       Premultiply(chunk[2], chunk[4]),
       Premultiply(chunk[1], chunk[4]),
       chunk[4] >>

\* lines 104-110 and 139-146: rgba_data for the input bytes.
RgbaData(kind, bytes) ==
    IF kind = Monochrome
    THEN Flatten([i \in 1..Len(bytes) |-> MonoPixel(bytes[i])])
    ELSE Flatten([i \in 1..(Len(bytes) \div 4) |->
                     PolyPixel(SubSeq(bytes, 4 * i - 3, 4 * i))])

\* lines 86-161 for one built tile: the payload handed to
\* create_texture_with_rgba8, or None when the size check fails.
Payload(kind, size, bytes) ==
    IF IsSome(Upload(kind, size, Len(bytes), Some("impeller_context"),
                     FALSE, TRUE).texture)
    THEN Some(RgbaData(kind, bytes))
    ELSE None

\* The inputs of the conversions followed.
UploadInputs ==
    { [kind |-> Monochrome, size |-> sz, bytes |-> m] :
          sz \in UploadSizes, m \in Masks }
    \cup
    { [kind |-> Polychrome, size |-> sz, bytes |-> b] :
          sz \in { [width |-> 1, height |-> 1], [width |-> 2, height |-> 1] },
          b \in Pixels \cup { p \o q : p \in Pixels, q \in SecondPixels }
                       \cup { SubSeq(p, 1, 3) : p \in Pixels } }

\* get_or_insert_with reaches the conversion of the built bytes.
Convert ==
    /\ IsSome(upload)
    /\ ~Unwrap(upload).done
    /\ upload' = Some([Unwrap(upload) EXCEPT
                          !.done = TRUE,
                          !.payload = Payload(Unwrap(upload).input.kind,
                                              Unwrap(upload).input.size,
                                              Unwrap(upload).input.bytes)])

InitUpload ==
    /\ AtlasInit
    /\ overflow_checks = FALSE
    /\ context = Some("impeller_context")
    /\ RendererInit
    /\ drawable_size = [width |-> 4, height |-> 4]
    /\ gl_renderer = NoGlRenderer
    /\ creation = NoCreation
    /\ gl_atlas = NoGlAtlasCalls
    /\ NoLockCalls
    /\ atlas_handle = None
    /\ quad_border = None
    /\ scissor_call = None
    /\ upload \in { Some([input |-> i, done |-> FALSE, payload |-> None]) :
                       i \in UploadInputs }

NextUpload ==
    /\ Convert
    /\ UNCHANGED << atlas_vars, context, state_lock, overflow_checks, caller_vars,
                    obs_vars, renderer_vars, backend_vars, atlas_handle,
                    quad_border, scissor_call, lock_vars >>

SpecUpload == InitUpload /\ [][NextUpload]_vars

\* The conversion of a buffer of the kind was done and gave a payload.
Uploaded(kind) ==
    /\ IsSome(upload)
    /\ Unwrap(upload).done
    /\ Unwrap(upload).input.kind = kind
    /\ IsSome(Unwrap(upload).payload)

\* C29: for an alpha mask of n bytes that passes the size check the
\* payload has 4n bytes and its i-th pixel is (255, 255, 255, mask[i]).
C29_MonochromePayload ==
    Uploaded(Monochrome) =>
        LET mask == Unwrap(upload).input.bytes
            out  == Unwrap(Unwrap(upload).payload)
        IN  /\ Len(mask) = Unwrap(upload).input.size.width
                               * Unwrap(upload).input.size.height
            /\ Len(out) = 4 * Len(mask)
            /\ \A i \in 1..Len(mask) :
                  /\ out[4 * i - 3] = 255
                  /\ out[4 * i - 2] = 255
                  /\ out[4 * i - 1] = 255
                  /\ out[4 * i] = mask[i]

\* A 2x2 mask with four different bytes was converted.
C29_Witness ==
    /\ Uploaded(Monochrome)
    /\ Unwrap(upload).input.bytes = << 0, 100, 200, 255 >>
    /\ Len(Unwrap(Unwrap(upload).payload)) = 16

\* C30: for a pixel (c0, c1, c2, a) of a polychrome buffer that passes the
\* size check the uploaded pixel is (c2 * a / 255, c1 * a / 255,
\* c0 * a / 255, a), the quotients truncated: the first and the third
\* channel change places, every colour channel is at most a, and a pixel
\* with a = 255 is uploaded as (c2, c1, c0, 255).
C30_PolychromePremultiplied ==
    Uploaded(Polychrome) =>
        LET in  == Unwrap(upload).input.bytes
            out == Unwrap(Unwrap(upload).payload)
        IN  /\ Len(out) = Len(in)
            /\ \A i \in 1..(Len(in) \div 4) :
                  LET c0 == in[4 * i - 3]
                      c1 == in[4 * i - 2]
                      c2 == in[4 * i - 1]
                      a  == in[4 * i]
                  IN  /\ out[4 * i] = a
                      /\ 255 * out[4 * i - 3] <= c2 * a
                      /\ c2 * a < 255 * (out[4 * i - 3] + 1)
                      /\ 255 * out[4 * i - 2] <= c1 * a
                      /\ c1 * a < 255 * (out[4 * i - 2] + 1)
                      /\ 255 * out[4 * i - 1] <= c0 * a
                      /\ c0 * a < 255 * (out[4 * i - 1] + 1)
                      /\ \A k \in 1..3 : out[4 * i - k] <= a
                      /\ a = 255 =>
                            /\ out[4 * i - 3] = c2
                            /\ out[4 * i - 2] = c1
                            /\ out[4 * i - 1] = c0

\* A two-pixel buffer was converted whose first pixel has partial alpha and
\* different first and third channels.
C30_Witness ==
    /\ Uploaded(Polychrome)
    /\ Len(Unwrap(upload).input.bytes) = 8
    /\ SubSeq(Unwrap(upload).input.bytes, 1, 4) = << 255, 100, 0, 200 >>
    /\ SubSeq(Unwrap(Unwrap(upload).payload), 1, 4) = << 0, 78, 200, 200 >>

\* C30 as stated: each uploaded colour channel is the input channel at the
\* same place times a / 255, and a pixel with a = 255 is uploaded unchanged.
C30_ChannelsInPlace ==
    Uploaded(Polychrome) =>
        LET in  == Unwrap(upload).input.bytes
            out == Unwrap(Unwrap(upload).payload)
        IN  \A i \in 1..(Len(in) \div 4) :
                LET a == in[4 * i]
                IN  /\ out[4 * i] = a
                    /\ \A k \in 1..3 :
                          /\ 255 * out[4 * i - k] <= in[4 * i - k] * a
                          /\ in[4 * i - k] * a < 255 * (out[4 * i - k] + 1)
                    /\ a = 255 => SubSeq(out, 4 * i - 3, 4 * i) =
                                  SubSeq(in, 4 * i - 3, 4 * i)

(***************************************************************************)
(* The same calls made on an ImpellerAtlas and on a GlAtlas: each call of  *)
(* the caller goes to the ImpellerAtlas first and then, with the same key  *)
(* and builder, to the GlAtlas.                                            *)
(***************************************************************************)
InitAtlases ==
    /\ AtlasInit
    /\ overflow_checks = FALSE
    /\ context = Some("impeller_context")
    /\ RendererInit
    /\ drawable_size = [width |-> 4, height |-> 4]
    /\ gl_renderer = NoGlRenderer
    /\ creation = NoCreation
    /\ gl_atlas = NoGlAtlasCalls
    /\ NoLockCalls
    /\ atlas_handle = None
    /\ NoPureCalls

\* The frame of a GlAtlas step.
GlAtlasOp ==
    UNCHANGED << atlas_vars, context, state_lock, overflow_checks, caller_vars,
                 obs_vars, renderer_vars, gl_renderer, creation, atlas_handle,
                 pure_vars, lock_vars >>

NextAtlases ==
    \/ /\ gl_atlas.call = None
       /\ \/ \E key \in Keys : GiLock(MainThread, key)
          \/ \E r \in BuildResults : GiBuild(MainThread, r)
          \/ GiTextureId(MainThread)
          \/ GiIncTextureId(MainThread)
          \/ GiTileId(MainThread)
          \/ GiIncTileId(MainThread)
          \/ \E gpu_ok \in BOOLEAN : GiUpload(MainThread, gpu_ok)
          \/ GiInsertTexture(MainThread)
          \/ GiInsertTile(MainThread)
          \/ \E key \in Keys : Remove(MainThread, key)
    \/ /\ pc[MainThread] = "return"
       /\ gl_atlas.call = None
       /\ frame[MainThread].op = "get_or_insert_with"
       /\ GlGetOrInsertWith(Unwrap(frame[MainThread].key))
       /\ GlAtlasOp
    \/ /\ pc[MainThread] = "return"
       /\ gl_atlas.call = None
       /\ frame[MainThread].op = "remove"
       /\ GlRemove(Unwrap(frame[MainThread].key))
       /\ GlAtlasOp
    \/ /\ IsSome(gl_atlas.call)
       /\ Return(MainThread)
    \/ /\ pc[MainThread] = "idle"
       /\ GlAtlasReturn
       /\ GlAtlasOp

SpecAtlases == InitAtlases /\ [][NextAtlases]_vars

\* Both atlases have answered the same get_or_insert_with call.
BothAnswered ==
    /\ pc[MainThread] = "return"
    /\ frame[MainThread].op = "get_or_insert_with"
    /\ IsSome(gl_atlas.call)

\* C31: on every get_or_insert_with call the GlAtlas and the ImpellerAtlas
\* agree on whether the builder is invoked and on whether the result is a
\* tile, and the GlAtlas gives distinct keys tiles with distinct tile ids.
C31_BackendsAgree ==
    /\ BothAnswered =>
          /\ Unwrap(gl_atlas.call).built = frame[MainThread].built
          /\ (Unwrap(gl_atlas.call).result.tag = "Some")
                <=> (frame[MainThread].result.tag = "Some")
    /\ \A k1, k2 \in Keys :
          (k1 # k2 /\ IsSome(gl_atlas.returned[k1]) /\ IsSome(gl_atlas.returned[k2]))
             => Unwrap(gl_atlas.returned[k1]).tile_id
                   # Unwrap(gl_atlas.returned[k2]).tile_id

\* Thread t takes the step in which its builder returns an error.
BuildFails(t) ==
    /\ pc[t] = "build"
    /\ pc'[t] = "return"
    /\ frame'[t].result.tag = "Err"

\* Thread t takes the step in which get_or_insert_with misses the key.
Misses(t) ==
    /\ pc[t] = "idle"
    /\ pc'[t] # "idle"
    /\ frame'[t].op = "get_or_insert_with"
    /\ tiles_by_key[Unwrap(frame'[t].key)] = None

\* C32: when the builder returns an error on a miss the call returns the
\* error and the atlas is as before (no tile, no texture entry, both id
\* counters as they were), and every get_or_insert_with for a key without a
\* tile goes on to invoke the builder.
C32_BuildErrorLeavesState ==
    [][\A t \in Threads :
          /\ BuildFails(t) =>
                /\ UNCHANGED << atlas_vars, last_created >>
                /\ frame'[t].result.tile = None
                /\ tiles_by_key'[Unwrap(frame'[t].key)] = None
          /\ Misses(t) => pc'[t] = "build"]_vars

\* A call returns the builder's error while another key already has its
\* tile.
C32_Witness ==
    \E t \in Threads :
        /\ GetReturning(t)
        /\ frame[t].built
        /\ frame[t].result.tag = "Err"
        /\ tiles_by_key[Unwrap(frame[t].key)] = None
        /\ \E k \in Keys : IsSome(tiles_by_key[k])
        /\ next_tile_id = 1

\* Key k is mapped to a tile whose texture entry has no GPU texture.
Textureless(k) ==
    /\ IsSome(tiles_by_key[k])
    /\ Unwrap(tiles_by_key[k]).texture_id \in DOMAIN textures
    /\ textures[Unwrap(tiles_by_key[k]).texture_id].texture = None

\* C33: a key mapped to a tile without GPU texture stays mapped to that
\* tile, without texture, until remove(key); every get_or_insert_with for
\* it in between is a hit that returns the tile without invoking the
\* builder.
C33_FailedBuildCached ==
    [][\A k \in Keys :
          Textureless(k) =>
              /\ \/ /\ tiles_by_key'[k] = tiles_by_key[k]
                    /\ Textureless(k)'
                 \/ /\ \E t \in Threads : RemoveStep(t) /\ frame'[t].key = Some(k)
                    /\ tiles_by_key'[k] = None
              /\ \A t \in Threads :
                    ( /\ pc[t] = "idle"
                      /\ pc'[t] # "idle"
                      /\ frame'[t].op = "get_or_insert_with"
                      /\ frame'[t].key = Some(k) ) =>
                        /\ pc'[t] = "return"
                        /\ ~frame'[t].built
                        /\ frame'[t].result = [tag |-> "Some", tile |-> tiles_by_key[k]]]_vars

\* A later call for a key whose upload failed returns as a hit, with the
\* tile still without texture.
C33_Witness ==
    \E t \in Threads :
        /\ GetReturning(t)
        /\ ~frame[t].built
        /\ frame[t].result.tag = "Some"
        /\ Textureless(Unwrap(frame[t].key))
        /\ get_texture(Unwrap(frame[t].result.tile).texture_id) = None

\* The keys that have a tile.
MappedKeys == { k \in Keys : IsSome(tiles_by_key[k]) }

\* The keys whose tile refers to the texture entry.
KeysOfTexture(id) ==
    { k \in MappedKeys : Unwrap(tiles_by_key[k]).texture_id = id }

\* No call is between its insert into `textures` (line 167) and its insert
\* into `tiles_by_key` (line 189).
NoInsertRunning == \A t \in Threads : pc[t] # "insert_tile"

\* C34: outside the two inserts of a running get_or_insert_with the
\* texture map has as many entries as the key -> tile map, distinct keys
\* have distinct texture ids, and every texture entry is referenced by
\* exactly one key; so a remove leaves no orphan entry and takes no entry
\* another key refers to.
C34_TilesMatchTextures ==
    NoInsertRunning =>
        /\ Cardinality(DOMAIN textures) = Cardinality(MappedKeys)
        /\ \A k1, k2 \in MappedKeys :
              k1 # k2 => Unwrap(tiles_by_key[k1]).texture_id
                            # Unwrap(tiles_by_key[k2]).texture_id
        /\ \A id \in DOMAIN textures : Cardinality(KeysOfTexture(id)) = 1

\* Two keys were built and one of them has just been removed: one tile and
\* one texture entry are left.
C34_Witness ==
    /\ \E t \in Threads : pc[t] = "return" /\ frame[t].op = "remove"
    /\ next_texture_id = 2
    /\ Cardinality(MappedKeys) = 1
    /\ Cardinality(DOMAIN textures) = 1

(***************************************************************************)
(* The two mutexes of the ImpellerAtlas under concurrent callers.  A       *)
(* thread makes a call (its intent), waits for the mutex the call takes    *)
(* first, runs the call and leaves it.  `inner` is set while the builder   *)
(* of the thread's get_or_insert_with is itself calling the atlas.         *)
(***************************************************************************)
LockThreads == { "t1", "t2" }

AtlasOps == { "get_or_insert_with", "remove", "get_texture", "set_context" }

\* Builders followed here: an error, nothing, and pixels of the right size
\* for a Monochrome and for a Polychrome tile.
LockBuildResults ==
    { r \in BuildResults : r.tag # "Some" } \cup SpriteBuildResults

\* The key slot of a call that takes no key.
NoKey == CHOOSE k \in Keys : TRUE

Intent(op, key) == [op |-> op, key |-> key, inner |-> FALSE]

\* The get_or_insert_with calls made and not yet left.
OpenBuilds ==
    { t \in Threads : IsSome(intent[t]) /\ Unwrap(intent[t]).op = "get_or_insert_with" }

\* Thread t calls the atlas.  Every open get_or_insert_with may take one
\* texture id and one tile id.
Call(t, op, key) ==
    /\ intent[t] = None
    /\ pc[t] = "idle"
    /\ op = "get_or_insert_with" =>
          /\ next_texture_id + Cardinality(OpenBuilds) < MaxId
          /\ next_tile_id + Cardinality(OpenBuilds) < MaxId
    /\ op \in { "get_texture", "set_context" } => key = NoKey
    /\ intent' = [intent EXCEPT ![t] = Some(Intent(op, key))]
    /\ UNCHANGED context_lock

\* Thread t waits in self.state.lock(): at line 65 or 194 for its own call,
\* or inside its builder for the call the builder makes.
WaitsForState(t) ==
    /\ IsSome(intent[t])
    /\ \/ /\ pc[t] = "idle"
          /\ Unwrap(intent[t]).op \in { "get_or_insert_with", "remove", "get_texture" }
       \/ Unwrap(intent[t]).inner

\* self.state.lock() returns the guard to thread t.
LockState(t) ==
    /\ WaitsForState(t)
    /\ StateLockFree
    /\ LET c == Unwrap(intent[t])
       IN  IF c.inner
           THEN \* the call made by the builder runs and the builder goes on
                /\ intent' = [intent EXCEPT ![t] = Some([c EXCEPT !.inner = FALSE])]
                /\ UNCHANGED << atlas_vars, context, state_lock, overflow_checks,
                                caller_vars, obs_vars, renderer_vars, backend_vars,
                                atlas_handle, pure_vars, context_lock >>
           ELSE IF c.op = "get_or_insert_with" THEN GiLock(t, c.key)
           ELSE IF c.op = "remove" THEN Remove(t, c.key)
           ELSE \* get_texture (lines 48-54): the guard is dropped at the
                \* end of the function, with the texture read
                /\ intent' = [intent EXCEPT ![t] = None]
                /\ UNCHANGED << atlas_vars, context, state_lock, overflow_checks,
                                caller_vars, obs_vars, renderer_vars, backend_vars,
                                atlas_handle, pure_vars, context_lock >>

\* The builder of thread t calls the atlas it is building for.
Reenter(t) ==
    /\ pc[t] = "build"
    /\ IsSome(intent[t])
    /\ ~Unwrap(intent[t]).inner
    /\ intent' = [intent EXCEPT ![t] = Some([Unwrap(intent[t]) EXCEPT !.inner = TRUE])]
    /\ UNCHANGED context_lock

\* Thread t waits in self.context.lock(): at line 86 inside
\* get_or_insert_with, or at line 45 in set_context.
WaitsForContext(t) ==
    /\ context_lock # Some(t)
    /\ \/ pc[t] = "upload"
       \/ /\ IsSome(intent[t])
          /\ Unwrap(intent[t]).op = "set_context"

\* self.context.lock() returns the guard to thread t.
LockContext(t) ==
    /\ WaitsForContext(t)
    /\ context_lock = None
    /\ context_lock' = Some(t)
    /\ UNCHANGED intent

\* The guard of the context mutex is dropped: at line 165, after the
\* upload, or at the end of the assignment of set_context (line 45), with
\* which set_context returns.
UnlockContext(t) ==
    /\ context_lock = Some(t)
    /\ context_lock' = None
    /\ IF Unwrap(intent[t]).op = "set_context"
       THEN /\ context = Some("impeller_context")
            /\ intent' = [intent EXCEPT ![t] = None]
       ELSE /\ pc[t] # "upload"
            /\ UNCHANGED intent

\* The caller has the result of the call of thread t; the state guard is
\* dropped next.
TakeResult(t) ==
    /\ pc[t] = "return"
    /\ context_lock # Some(t)
    /\ IsSome(intent[t])
    /\ intent' = [intent EXCEPT ![t] = None]
    /\ UNCHANGED context_lock

\* The frame of a step that is only about the callers and the mutexes.
CallerStep ==
    UNCHANGED << atlas_vars, context, state_lock, overflow_checks, caller_vars,
                 obs_vars, renderer_vars, backend_vars, atlas_handle, pure_vars >>

\* The builder of thread t is running and has not called the atlas.
Building(t) == pc[t] = "build" /\ ~Unwrap(intent[t]).inner

\* A step of the call thread t is in, between its locks.
Run(t) ==
    \/ Building(t) /\ \E r \in LockBuildResults : GiBuild(t, r)
    \/ GiTextureId(t)
    \/ GiIncTextureId(t)
    \/ GiTileId(t)
    \/ GiIncTileId(t)
    \/ context_lock = Some(t) /\ \E gpu_ok \in BOOLEAN : GiUpload(t, gpu_ok)
    \/ context_lock # Some(t) /\ GiInsertTexture(t)
    \/ GiInsertTile(t)
    \/ /\ context_lock = Some(t)
       /\ pc[t] = "idle"
       /\ context = None
       /\ SetContext
    \/ UnlockContext(t) /\ CallerStep
    \/ TakeResult(t) /\ CallerStep
    \/ /\ intent[t] = None
       /\ context_lock # Some(t)
       /\ Return(t)

InitLocks ==
    /\ AtlasInit
    /\ overflow_checks = FALSE
    /\ context = None
    /\ RendererInit
    /\ drawable_size = [width |-> 4, height |-> 4]
    /\ gl_renderer = NoGlRenderer
    /\ creation = NoCreation
    /\ gl_atlas = NoGlAtlasCalls
    /\ NoLockCalls
    /\ atlas_handle = None
    /\ NoPureCalls

NextLocks ==
    \E t \in LockThreads :
        \/ \E op \in AtlasOps, key \in Keys : Call(t, op, key) /\ CallerStep
        \/ LockState(t)
        \/ Reenter(t) /\ CallerStep
        \/ LockContext(t) /\ CallerStep
        \/ Run(t)

\* parking_lot mutexes hand the lock to every waiter eventually, and a
\* thread inside a call keeps running.
FairLocks ==
    \A t \in LockThreads :
        /\ SF_vars(LockState(t))
        /\ SF_vars(LockContext(t) /\ CallerStep)
        /\ WF_vars(Run(t))

SpecLocks == InitLocks /\ [][NextLocks]_vars /\ FairLocks

\* The builder of thread t has called the atlas and waits for the state
\* mutex.
Reentered(t) == IsSome(intent[t]) /\ Unwrap(intent[t]).inner

\* Thread t has left the call it made.
Left(t) == intent[t] = None /\ pc[t] = "idle"

\* Thread t has made a call that takes the state mutex and has not got it.
QueuedForState(t) ==
    /\ IsSome(intent[t])
    /\ pc[t] = "idle"
    /\ Unwrap(intent[t]).op # "set_context"

\* The context mutex is only taken by a thread that holds the state mutex
\* (get_or_insert_with) or that takes no other mutex (set_context).
LockOrder ==
    \A t \in LockThreads :
        context_lock = Some(t) =>
            /\ ~WaitsForState(t)
            /\ \/ state_lock = Some(t)
               \/ Unwrap(intent[t]).op = "set_context"

\* While a builder runs its thread holds the state mutex, every other
\* thread is outside the locked part of its call, and no step completes or
\* starts the locked part of another thread's call.
BuildExcludes ==
    \A t, u \in LockThreads :
        (pc[t] = "build" /\ u # t) =>
            /\ state_lock = Some(t)
            /\ pc[u] = "idle"
            /\ pc'[u] = "idle"
            /\ QueuedForState(u) => intent'[u] = intent[u]

\* A builder that has called the atlas stays in that call.
ReenteredStays ==
    \A t \in LockThreads :
        Reentered(t) => (Reentered(t)' /\ pc'[t] = "build")

C36_PreservedFresh ==
    ( /\ IsSome(last_draw)
      /\ Unwrap(last_draw).submitted
      /\ IsSome(preserved_texture) ) => Unwrap(last_draw).preserved

(***************************************************************************)
(* The scissor rectangle of a partial redraw (ImpellerRenderer::draw,      *)
(* lines 203-214) and the clip rectangle (248-257).  Scene coordinates are *)
(* f32 pixels with the origin at the top left; they are kept here in half  *)
(* pixels, so that 3 stands for 1.5.                                       *)
(***************************************************************************)
\* Origins and extents of the changed regions followed, in half pixels.
HalfOrigins == { 0, 2, 3 }
HalfExtents == { 2, 4, 5 }

\* The surface.
SurfaceWidth == 6
SurfaceHeights == { 4, 6 }

ChangedRegions ==
    [x : HalfOrigins, y : HalfOrigins, w : HalfExtents, h : HalfExtents]

\* `v as i32` for the f32 of v half pixels: the fraction is cut off, towards
\* zero.
AsI32(v) == IF v >= 0 THEN v \div 2 ELSE -((-v) \div 2)

\* lines 207-212: the arguments of glow scissor(x, y, width, height).
ScissorBox(r) == [x |-> AsI32(r.x), y |-> AsI32(r.y), w |-> AsI32(r.w), h |-> AsI32(r.h)]

\* The pixels of the surface, column and row counted from the top left.
SurfacePixels(height) == (0..(SurfaceWidth - 1)) \X (0..(height - 1))

\* glScissor: the box is in window coordinates, whose origin is the bottom
\* left corner; row `row` from the top is row height - 1 - row from the
\* bottom.
ScissorPixels(box, height) ==
    { p \in SurfacePixels(height) :
          /\ box.x <= p[1]
          /\ p[1] < box.x + box.w
          /\ box.y <= height - 1 - p[2]
          /\ height - 1 - p[2] < box.y + box.h }

\* lines 250-257: the clip rectangle is r itself, in scene coordinates; its
\* pixels are those it covers at least in part.
ClipPixels(r, height) ==
    { p \in SurfacePixels(height) :
          /\ 2 * p[1] < r.x + r.w
          /\ 2 * p[1] + 2 > r.x
          /\ 2 * p[2] < r.y + r.h
          /\ 2 * p[2] + 2 > r.y }

\* draw reaches the scissor call of a scene with changed_bounds = Some(r).
SetScissor ==
    /\ IsSome(scissor_call)
    /\ ~Unwrap(scissor_call).done
    /\ scissor_call' = Some([Unwrap(scissor_call) EXCEPT
                                !.done = TRUE,
                                !.box = Some(ScissorBox(Unwrap(scissor_call).bounds))])

InitScissor ==
    /\ AtlasInit
    /\ overflow_checks = FALSE
    /\ context = Some("impeller_context")
    /\ RendererInit
    /\ drawable_size = [width |-> 4, height |-> 4]
    /\ gl_renderer = NoGlRenderer
    /\ creation = NoCreation
    /\ gl_atlas = NoGlAtlasCalls
    /\ NoLockCalls
    /\ atlas_handle = None
    /\ quad_border = None
    /\ upload = None
    /\ scissor_call \in { Some([bounds |-> r, height |-> h, done |-> FALSE,
                                box |-> None]) :
                             r \in ChangedRegions, h \in SurfaceHeights }

NextScissor ==
    /\ SetScissor
    /\ UNCHANGED << atlas_vars, context, state_lock, overflow_checks, caller_vars,
                    obs_vars, renderer_vars, backend_vars, atlas_handle,
                    quad_border, upload, lock_vars >>

SpecScissor == InitScissor /\ [][NextScissor]_vars

\* C37: the pixels the scissor box enables contain every pixel of the
\* changed region r and are those of the clip rectangle built from r.
C37_ScissorCoversRegion ==
    (IsSome(scissor_call) /\ Unwrap(scissor_call).done) =>
        LET c == Unwrap(scissor_call)
        IN  /\ ClipPixels(c.bounds, c.height)
                  \subseteq ScissorPixels(Unwrap(c.box), c.height)
            /\ ScissorPixels(Unwrap(c.box), c.height)
                  = ClipPixels(c.bounds, c.height)

(***************************************************************************)
(* The save depth of the display list.                                     *)
(***************************************************************************)
\* The number of commands `op` among the first n commands of list.
Count(list, op, n) == Cardinality({ i \in 1..n : list[i].op = op })

\* The saves not yet restored after the first n commands.
Depth(list, n) == Count(list, "save", n) - Count(list, "restore", n)

\* The depth at which the elements are drawn: inside the clip to the changed
\* region (lines 248-257, restored at 910-912) or at the bottom.
BaseDepth(scene) == IF IsSome(scene.changed_bounds) THEN 1 ELSE 0

\* The element the n-th command was issued for; << 0, 0 >> stands for the
\* background and for the ends of the list.
Owner(list, n) ==
    IF n \in 1..Len(list) THEN << list[n].batch, list[n].elem >> ELSE << 0, 0 >>

\* C38: the display list of a draw is balanced: no restore without a save
\* before it, every save restored at the end, and before the first and after
\* the last command of each element only the clip to the changed region is
\* open.
C38_SaveRestoreBalanced ==
    IsSome(last_draw) =>
        LET list == Unwrap(last_draw).display_list
            base == BaseDepth(Unwrap(last_draw).scene)
        IN  /\ \A n \in 0..Len(list) : Depth(list, n) >= 0
            /\ Depth(list, Len(list)) = 0
            /\ \A n \in 1..Len(list) :
                  list[n].batch > 0 =>
                      /\ Owner(list, n - 1) # Owner(list, n)
                            => Depth(list, n - 1) = base
                      /\ Owner(list, n + 1) # Owner(list, n)
                            => Depth(list, n) = base

\* A partial redraw over a preserved frame whose list has a transformed
\* monochrome sprite and, after it, a clipped polychrome sprite, both
\* textured.
C38_Witness ==
    /\ IsSome(last_draw)
    /\ PreservedBlit
    /\ IsSome(Unwrap(last_draw).scene.changed_bounds)
    /\ \E i, j \in 1..Len(Unwrap(last_draw).display_list) :
          /\ i < j
          /\ Unwrap(last_draw).display_list[i].op = "transform"
          /\ Unwrap(last_draw).display_list[j].op = "clip_path"
          /\ Unwrap(last_draw).display_list[j].batch = 2

\* C39: every fill drawn with the shared paint has the paint of its own
\* element: the colour source is the element's gradient, or none for a
\* solid fill, whose colour is the element's.
C39_FillIndependent ==
    IsSome(last_draw) =>
        \A i \in 1..Len(Unwrap(last_draw).fills) :
            LET f == Unwrap(last_draw).fills[i]
            IN  IF f.call = "set_color_source"
                THEN f.paint.color_source = Some(<< f.batch, f.elem >>)
                ELSE /\ f.paint.color_source = None
                     /\ f.paint.color = << f.batch, f.elem >>

====
